---- MODULE Spec2Model ----
(***************************************************************************)
(* Model of the resource aggregation server (server/index.ts) and of the   *)
(* client routing in front of it (lib/api fetchResources).                 *)
(*                                                                         *)
(* One GET /api/resources request is handled at a time; every `await` on   *)
(* an upstream HTTP call is one step of the state machine, and the reply   *)
(* of the upstream (a list of raw items, or a failure) is chosen by the    *)
(* environment.  Strings are TLA+ strings, so that toLowerCase, includes   *)
(* and the URL rules are computed on characters as the code does.          *)
(***************************************************************************)
EXTENDS Integers, Sequences, FiniteSets, TLC

(***************************************************************************)
(* Bounds of the model.                                                    *)
(***************************************************************************)
MaxPage == 2
MaxPageSize == 1
MaxReply == 1

(***************************************************************************)
(* JavaScript helpers.                                                     *)
(***************************************************************************)
\* JSON has no NaN/Infinity: res.json writes them as null.  A number field
\* that is null in the body is modelled by this value, below every count.
JsonNull == 0 - 1000

\* `undefined` for an optional string field (framework, nextPageToken).
Undefined == "<undefined>"

Max(a, b) == IF a >= b THEN a ELSE b
Min(a, b) == IF a <= b THEN a ELSE b

\* Math.floor(a / b) and Math.ceil(a / b) for b > 0 (\div floors in TLA+).
FloorDiv(a, b) == a \div b
CeilDiv(a, b) == 0 - ((0 - a) \div b)

\* Array.prototype.slice(start, end), negative indexes counted from the end.
SliceIndex(len, k) == IF k < 0 THEN Max(len + k, 0) ELSE Min(k, len)
JsSlice(s, start, end) ==
  LET from == SliceIndex(Len(s), start)
      to   == SliceIndex(Len(s), end)
  IN  IF from >= to THEN << >> ELSE SubSeq(s, from + 1, to)

\* Array.prototype.filter and map.
FilterSeq(s, Keep(_)) == SelectSeq(s, Keep)

MapSeq(s, F(_)) == [i \in 1..Len(s) |-> F(s[i])]

\* Array.prototype.flat() on an array of arrays.
RECURSIVE Flat(_)
Flat(ss) == IF ss = << >> THEN << >> ELSE Head(ss) \o Flat(Tail(ss))

\* String.prototype.toLowerCase, character by character.
LowerChar(c) ==
  CASE c = "A" -> "a" [] c = "B" -> "b" [] c = "C" -> "c" [] c = "D" -> "d"
    [] c = "E" -> "e" [] c = "F" -> "f" [] c = "G" -> "g" [] c = "H" -> "h"
    [] c = "I" -> "i" [] c = "J" -> "j" [] c = "K" -> "k" [] c = "L" -> "l"
    [] c = "M" -> "m" [] c = "N" -> "n" [] c = "O" -> "o" [] c = "P" -> "p"
    [] c = "Q" -> "q" [] c = "R" -> "r" [] c = "S" -> "s" [] c = "T" -> "t"
    [] c = "U" -> "u" [] c = "V" -> "v" [] c = "W" -> "w" [] c = "X" -> "x"
    [] c = "Y" -> "y" [] c = "Z" -> "z" [] OTHER -> c

RECURSIVE ToLowerCase(_)
ToLowerCase(s) ==
  IF Len(s) = 0 THEN ""
  ELSE LowerChar(SubSeq(s, 1, 1)) \o ToLowerCase(SubSeq(s, 2, Len(s)))

\* String.prototype.includes.
Includes(s, q) ==
  \E i \in 1..(Len(s) - Len(q) + 1) : SubSeq(s, i, i + Len(q) - 1) = q

\* Array.prototype.includes on an array of strings.
ArrayIncludes(arr, x) == \E i \in 1..Len(arr) : arr[i] = x

\* Number(s) for the decimal strings a query parameter can carry, and the
\* decimal string of a small natural number (what the client puts in the URL).
Digits == << "0", "1", "2", "3", "4", "5", "6", "7", "8", "9" >>
DigitValue(c) == (CHOOSE d \in 1..10 : Digits[d] = c) - 1

RECURSIVE Number(_)
Number(s) ==
  IF Len(s) = 1 THEN DigitValue(s)
  ELSE 10 * Number(SubSeq(s, 1, Len(s) - 1)) + DigitValue(SubSeq(s, Len(s), Len(s)))

RECURSIVE NumToString(_)
NumToString(n) ==
  IF n < 10 THEN Digits[n + 1]
  ELSE NumToString(n \div 10) \o Digits[(n % 10) + 1]

(***************************************************************************)
(* The static fallback catalog.                                            *)
(***************************************************************************)
fallbackData ==
  << [ id          |-> "ex1",
       title       |-> "React Official Docs",
       description |-> "The official React documentation with guides and API references.",
       url         |-> "https://react.dev/learn",
       type        |-> "doc",
       language    |-> "javascript",
       framework   |-> "react",
       difficulty  |-> "beginner",
       tags        |-> << "official", "docs" >> ],
     [ id          |-> "ex2",
       title       |-> "Docker Deep Dive",
       description |-> "A comprehensive guide to Docker concepts and best practices.",
       url         |-> "https://docs.docker.com/",
       type        |-> "doc",
       language    |-> "docker",
       framework   |-> Undefined,
       difficulty  |-> "intermediate",
       tags        |-> << "containers", "devops" >> ] >>

(***************************************************************************)
(* Mapping of upstream items to the unified Resource record.               *)
(***************************************************************************)
\* /\.pdf($|\?)/ : ".pdf" at the end of the string or followed by "?".
MatchesPdf(u) ==
  \E i \in 1..(Len(u) - 3) :
    /\ SubSeq(u, i, i + 3) = ".pdf"
    /\ \/ i + 3 = Len(u)
       \/ SubSeq(u, i + 4, i + 4) = "?"

detectTypeFromUrl(url) ==
  IF url = "" THEN "article"
  ELSE LET u == ToLowerCase(url)
       IN  IF MatchesPdf(u) THEN "pdf"
           ELSE IF \/ Includes(u, "youtube.com") \/ Includes(u, "youtu.be")
                   \/ Includes(u, "vimeo.com") \/ Includes(u, "dailymotion.com")
                THEN "video"
           ELSE IF \/ Includes(u, "/docs") \/ Includes(u, "docs.")
                   \/ Includes(u, "developer.mozilla.org") \/ Includes(u, "nodejs.org")
                   \/ Includes(u, "react.dev") \/ Includes(u, "angular.io")
                   \/ Includes(u, "vuejs.org")
                THEN "doc"
           ELSE "article"

\* A raw DEV.to article carries id and canonical_url ("" when it has none);
\* title, description and tag_list are absent and take their defaults.
mapDevToArticleToResource(article) ==
  LET primaryUrl == article.canonical_url
  IN  [ id          |-> article.id,
        title       |-> "Untitled",
        description |-> "",
        url         |-> IF primaryUrl = "" THEN "#" ELSE primaryUrl,
        type        |-> detectTypeFromUrl(primaryUrl),
        language    |-> "general",
        framework   |-> Undefined,
        difficulty  |-> "intermediate",
        tags        |-> << >> ]

\* A raw YouTube search item: videoId ("" when id.videoId is missing) and
\* whether it has a snippet.
YtItemValid(it) == it.videoId # "" /\ it.snippet

mapYoutubeItem(it) ==
  [ id          |-> it.videoId,
    title       |-> "Untitled",
    description |-> "",
    url         |-> "https://www.youtube.com/watch?v=" \o it.videoId,
    type        |-> "video",
    language    |-> "general",
    framework   |-> Undefined,
    difficulty  |-> "intermediate",
    tags        |-> << >> ]

mapYoutubeItems(itemsRaw) == MapSeq(FilterSeq(itemsRaw, YtItemValid), mapYoutubeItem)

\* A raw Google Books volume: id, infoLink ("" when absent) and
\* accessInfo.pdf.isAvailable; there is no download link, so the url is the
\* infoLink or the "#" sentinel.
mapGoogleBooksVolume(it) ==
  [ id          |-> it.id,
    title       |-> "Untitled",
    description |-> "",
    url         |-> IF it.infoLink = "" THEN "#" ELSE it.infoLink,
    type        |-> IF it.pdfAvailable THEN "pdf" ELSE "book",
    language    |-> "general",
    framework   |-> Undefined,
    difficulty  |-> "intermediate",
    tags        |-> << >> ]

\* A raw FreeBooks entry: id ("" when absent) and url ("" when absent); idx
\* is the 0-based position in the reply.
mapFreeBook(b, idx, genre, pageNum) ==
  [ id          |-> IF b.id = "" THEN genre \o "-" \o NumToString(pageNum) \o "-" \o NumToString(idx)
                    ELSE b.id,
    title       |-> "Untitled",
    description |-> "",
    url         |-> IF b.url = "" THEN "#" ELSE b.url,
    type        |-> "book",
    language    |-> "general",
    framework   |-> Undefined,
    difficulty  |-> "intermediate",
    tags        |-> << >> ]

\* A raw OpenLibrary doc: key ("" when absent) and title.
mapOpenLibraryDoc(d) ==
  [ id          |-> IF d.key = "" THEN d.title ELSE d.key,
    title       |-> d.title,
    description |-> "",
    url         |-> IF d.key = "" THEN "#" ELSE "https://openlibrary.org" \o d.key,
    type        |-> "book",
    language    |-> "general",
    framework   |-> Undefined,
    difficulty  |-> "intermediate",
    tags        |-> << >> ]

\* Variant that trusts the upstream: no local type filter.
TypeFilterTrusting(mapped, type) == mapped

\* The local type filter every single-provider branch applies.
TypeFilter(mapped, type) ==
  IF type # "" /\ type # "all"
  THEN LET Keep(r) == r.type = type IN FilterSeq(mapped, Keep)
  ELSE mapped

(***************************************************************************)
(* filterAndPaginate                                                       *)
(***************************************************************************)
\* Variant of the free-text match that compares without lowering the case.
MatchesQueryCaseSensitive(r, query) ==
  \/ Includes(r.title, query)
  \/ Includes(r.description, query)
  \/ \E i \in 1..Len(r.tags) : Includes(r.tags[i], query)

MatchesQuery(r, query) ==
  LET q == ToLowerCase(query)
  IN  \/ Includes(ToLowerCase(r.title), q)
      \/ Includes(ToLowerCase(r.description), q)
      \/ \E i \in 1..Len(r.tags) : Includes(ToLowerCase(r.tags[i]), q)

\* Variant with the offset folded into the filter step: the type filter,
\* then the first match is skipped.
ApplyFiltersThenSkip(data, p) ==
  LET KeepType(r) == p.type \in { "", "all" } \/ r.type = p.type
      kept == FilterSeq(data, KeepType)
  IN  JsSlice(kept, 1, Len(kept))

ApplyFilters(data, p) ==
  LET KeepQuery(r)      == MatchesQuery(r, p.query)
      KeepType(r)       == r.type = p.type
      KeepLanguage(r)   == r.language = p.language
      KeepFramework(r)  == r.framework = p.framework
      KeepDifficulty(r) == r.difficulty = p.difficulty
      KeepTags(r)       == \E i \in 1..Len(p.tags) : ArrayIncludes(r.tags, p.tags[i])
      f1 == IF p.query # "" THEN FilterSeq(data, KeepQuery) ELSE data
      f2 == IF p.type # "" /\ p.type # "all" THEN FilterSeq(f1, KeepType) ELSE f1
      f3 == IF p.language # "" /\ p.language # "all" THEN FilterSeq(f2, KeepLanguage) ELSE f2
      f4 == IF p.framework # "" /\ p.framework # "all" THEN FilterSeq(f3, KeepFramework) ELSE f3
      f5 == IF p.difficulty # "" /\ p.difficulty # "all" THEN FilterSeq(f4, KeepDifficulty) ELSE f4
  IN  IF Len(p.tags) > 0 THEN FilterSeq(f5, KeepTags) ELSE f5

\* Variant without the floor of one page: Math.ceil(total / pageSize) alone.
TotalPagesNoFloor(total, pageSize) ==
  IF pageSize = 0 THEN JsonNull
  ELSE IF pageSize > 0 THEN CeilDiv(total, pageSize)
  ELSE 0 - FloorDiv(total, 0 - pageSize)

\* Math.max(1, Math.ceil(total / pageSize)); total / 0 is Infinity or NaN,
\* Math.max keeps it, and the body carries null.
TotalPagesOf(total, pageSize) ==
  IF pageSize = 0 THEN JsonNull
  ELSE IF pageSize > 0 THEN Max(1, CeilDiv(total, pageSize))
  ELSE Max(1, 0 - FloorDiv(total, 0 - pageSize))

\* Variant that filters the array it was given in place.
DataAfterFilterInPlace(data, p) == ApplyFilters(data, p)

\* let filtered = data.slice(): the filters run on a copy and build new
\* arrays, so the array handed to filterAndPaginate is left as it was.
DataAfterFilter(data, p) == data

\* Variant whose offset counts pages from zero: start = page * pageSize.
filterAndPaginateZeroBased(data, p) ==
  LET filtered == ApplyFilters(data, p)
      total    == Len(filtered)
      start    == p.page * p.pageSize
      end      == start + p.pageSize
  IN  [ items      |-> JsSlice(filtered, start, end),
        total      |-> total,
        page       |-> p.page,
        pageSize   |-> p.pageSize,
        totalPages |-> TotalPagesOf(total, p.pageSize) ]

filterAndPaginate(data, p) ==
  LET filtered == ApplyFilters(data, p)
      total    == Len(filtered)
      start    == (p.page - 1) * p.pageSize
      end      == start + p.pageSize
  IN  [ items      |-> JsSlice(filtered, start, end),
        total      |-> total,
        page       |-> p.page,
        pageSize   |-> p.pageSize,
        totalPages |-> TotalPagesOf(total, p.pageSize) ]

(***************************************************************************)
(* Client side: fetchResources builds the query string of GET              *)
(* /api/resources.  Later spreads of the params object override earlier    *)
(* ones, so the provider is the one set by the LAST rule that applies.     *)
(***************************************************************************)
RECURSIVE Join(_, _)
Join(arr, sep) ==
  IF Len(arr) = 0 THEN ""
  ELSE IF Len(arr) = 1 THEN arr[1]
  ELSE arr[1] \o sep \o Join(Tail(arr), sep)

\* String.prototype.split(sep) for a one-character separator.
RECURSIVE SplitFrom(_, _, _)
SplitFrom(s, sep, cur) ==
  IF Len(s) = 0 THEN << cur >>
  ELSE IF SubSeq(s, 1, 1) = sep
       THEN << cur >> \o SplitFrom(SubSeq(s, 2, Len(s)), sep, "")
       ELSE SplitFrom(SubSeq(s, 2, Len(s)), sep, cur \o SubSeq(s, 1, 1))
Split(s, sep) == SplitFrom(s, sep, "")

\* One object spread { ...(cond ? { provider: value } : {}) }.
Spread(cond, value, before) == IF cond THEN value ELSE before

\* Variant in which the first rule that applies wins instead of the last.
RoutedProviderFirstMatch(type, tags) ==
  LET free == ArrayIncludes(tags, "free")
  IN  IF type = "all" THEN "mixed"
      ELSE IF type = "video" THEN "youtube"
      ELSE IF type = "pdf" \/ free THEN "googlebooks"
      ELSE IF type = "doc" THEN "openlibrary"
      ELSE IF type = "book" /\ ~free THEN "openlibrary"
      ELSE ""

RoutedProvider(type, tags) ==
  LET free == ArrayIncludes(tags, "free")
      p0 == ""
      p1 == Spread(type = "all", "mixed", p0)
      p2 == Spread(type = "video", "youtube", p1)
      p3 == Spread(type = "pdf" \/ free, "googlebooks", p2)
      p4 == Spread(type = "doc", "openlibrary", p3)
      p5 == Spread(type = "book" /\ ~free, "openlibrary", p4)
  IN  p5

\* params is the client's ResourceQuery (page and pageSize are numbers);
\* the result is the query string as Express sees it ("" = parameter absent).
fetchResources(params) ==
  [ provider   |-> RoutedProvider(params.type, params.tags),
    query      |-> params.query,
    type       |-> params.type,
    language   |-> params.language,
    framework  |-> params.framework,
    difficulty |-> params.difficulty,
    tags       |-> Join(params.tags, ","),
    page       |-> NumToString(params.page),
    pageSize   |-> NumToString(params.pageSize) ]

(***************************************************************************)
(* Server side: parsing and routing of GET /api/resources.                 *)
(***************************************************************************)
\* `x || d` on a query-string value: the empty (absent) string is falsy.
OrElse(x, d) == IF x = "" THEN d ELSE x

ParseQuery(raw) ==
  [ provider   |-> ToLowerCase(raw.provider),
    query      |-> raw.query,
    type       |-> OrElse(raw.type, "all"),
    language   |-> OrElse(raw.language, "all"),
    framework  |-> OrElse(raw.framework, "all"),
    difficulty |-> OrElse(raw.difficulty, "all"),
    tags       |-> IF raw.tags # "" THEN Split(raw.tags, ",") ELSE << >>,
    page       |-> IF raw.page = "" THEN 1 ELSE Number(raw.page),
    pageSize   |-> IF raw.pageSize = "" THEN 12 ELSE Number(raw.pageSize) ]

\* Variant of the mixed-mode test that looks at the provider only.
IsMixedWhateverType(r) == r.provider = "" \/ r.provider = "mixed"

IsMixed(r) == (r.provider = "" \/ r.provider = "mixed") /\ (r.type = "all" \/ r.type = "")

\* The chain of `if (provider === ...)` branches; the article feed is the
\* code after the last branch.
SelectPath(r) ==
  IF IsMixed(r) THEN "mixed"
  ELSE IF r.provider = "googlebooks" THEN "googlebooks"
  ELSE IF r.provider = "freebooks" THEN "freebooks"
  ELSE IF r.provider = "openlibrary" THEN "openlibrary"
  ELSE IF r.provider = "youtube" THEN "youtube"
  ELSE "article"

\* tags[0] || fallback
FirstTagOr(tags, d) == IF Len(tags) > 0 /\ tags[1] # "" THEN tags[1] ELSE d

\* Search term of the mixed, googlebooks and openlibrary branches.
SearchTerm(r) == OrElse(r.query, FirstTagOr(r.tags, "programming"))

\* String.prototype.replace(/\s+/g, '-').
RECURSIVE ReplaceSpaces(_, _)
ReplaceSpaces(s, inRun) ==
  IF Len(s) = 0 THEN ""
  ELSE IF SubSeq(s, 1, 1) = " "
       THEN (IF inRun THEN "" ELSE "-") \o ReplaceSpaces(SubSeq(s, 2, Len(s)), TRUE)
       ELSE SubSeq(s, 1, 1) \o ReplaceSpaces(SubSeq(s, 2, Len(s)), FALSE)

Genre(r) == ReplaceSpaces(ToLowerCase(FirstTagOr(r.tags, OrElse(r.query, "programming"))), FALSE)

\* Variant that asks every source for a whole page: Math.max(1, pageSize || 12).
maxPerSourceWholePage(pageSize) == Max(1, IF pageSize = 0 THEN 12 ELSE pageSize)

\* Math.max(1, Math.floor((pageSize || 12) / 3))
maxPerSource(pageSize) == Max(1, FloorDiv(IF pageSize = 0 THEN 12 ELSE pageSize, 3))

\* Math.max(1, Math.min(cap, pageSize)) of the googlebooks (40), openlibrary
\* (50) and youtube (50) branches.
GoogleBooksCap == 40
OpenLibraryCap == 50
YoutubeCap == 50
Capped(cap, pageSize) == Max(1, Min(cap, pageSize))

\* Variant without the inner catch: the provider error reaches the outer
\* catch, which answers 500.
ProviderFallbackRethrow(r, data) ==
  [ status |-> 500, body |-> [ error |-> "Failed to fetch resources" ] ]

\* Variant whose catch answers an empty page without reading the catalog.
ProviderFallbackEmpty(r, data) ==
  [ status |-> 200,
    body   |-> [ items |-> << >>, total |-> 0, page |-> r.page,
                 pageSize |-> r.pageSize, totalPages |-> 1 ] ]

\* The catch of the inner try: the provider error is logged and the static
\* catalog answers, with HTTP 200.
ProviderFallback(r, data) ==
  [ status |-> 200,
    body   |-> filterAndPaginate(data, [ query |-> r.query, type |-> r.type,
                 language |-> r.language, framework |-> r.framework,
                 difficulty |-> r.difficulty, tags |-> r.tags,
                 page |-> r.page, pageSize |-> r.pageSize ]) ]

Ok200(items, total, page, pageSize, totalPages) ==
  [ status |-> 200,
    body   |-> [ items |-> items, total |-> total, page |-> page,
                 pageSize |-> pageSize, totalPages |-> totalPages ] ]

(***************************************************************************)
(* Inputs: requests, and what the upstream providers can reply.            *)
(***************************************************************************)
\* pageSize of the documented video scenario, and the one the home page uses.
ScenarioPageSizeParam == "10"
ClientPageSize == 12

Providers == { "", "mixed", "youtube", "googlebooks", "freebooks", "openlibrary", "devto" }
Types == { "all", "video", "book", "doc", "pdf" }
Queries == { "", "docker" }
TagLists == { << >>, << "free" >> }

\* Query-string values of page and pageSize ("" = absent).
PageParams == { "" } \cup { NumToString(n) : n \in 0..MaxPage }
PageSizeParams == { "" } \cup { NumToString(n) : n \in 0..MaxPageSize }
                    \cup { ScenarioPageSizeParam }

\* Requests sent straight to the server.
DirectRequests ==
  [ provider : Providers, query : Queries, type : Types \cup { "" },
    language : { "" }, framework : { "" }, difficulty : { "" },
    tags : { Join(t, ",") : t \in TagLists },
    page : PageParams, pageSize : PageSizeParams ]

\* Queries the home page hands to fetchResources.
ClientQueries ==
  [ query : Queries, type : Types,
    language : { "all" }, framework : { "all" }, difficulty : { "all" },
    tags : TagLists,
    page : 1..MaxPage, pageSize : { ClientPageSize } ]

\* All sequences of at most n elements of S.
BoundedSeq(S, n) == UNION { [1..k -> S] : k \in 0..n }

DevArticles ==
  { [ id |-> "101", canonical_url |-> "https://www.youtube.com/watch?v=v1a" ],
    [ id |-> "102", canonical_url |-> "" ] }

\* Videos of result page p of the video search.
YoutubeItems(p) ==
  { [ videoId |-> "v" \o NumToString(p) \o "a", snippet |-> TRUE ],
    [ videoId |-> "v" \o NumToString(p) \o "b", snippet |-> FALSE ] }

\* Ids are the upstream's own strings, passed on as they come: the first
\* volume carries the id an article of the feed carries.
GoogleVolumes ==
  { [ id |-> "101", infoLink |-> "", pdfAvailable |-> FALSE ],
    [ id |-> "g2", infoLink |-> "https://books.google.com/g2.pdf", pdfAvailable |-> TRUE ] }

FreeBooks ==
  { [ id |-> "", url |-> "" ],
    [ id |-> "fb1", url |-> "https://freebooks.example/fb1" ] }

OpenLibraryDocs ==
  { [ key |-> "/works/OL1W", title |-> "Clean Code" ],
    [ key |-> "", title |-> "Untitled" ] }

\* totalItems / numFound values an upstream reports.
UpstreamTotals == { 0, 5 }

\* A reply of an upstream call: ok = FALSE is a timeout, a non-2xx status or
\* a rejection; total is totalItems / numFound; next is the page the
\* nextPageToken stands for (0 = no token).
FailedReply == [ ok |-> FALSE, items |-> << >>, total |-> 0, next |-> 0 ]
NoReply == [ ok |-> FALSE, items |-> << >>, total |-> 0, next |-> 0 ]
Replies(pool, totals, nexts) ==
  { FailedReply } \cup
  [ ok : { TRUE }, items : BoundedSeq(pool, MaxReply), total : totals, next : nexts ]

\* The page of the video search a continuation token stands for.
TokenPage(token) == IF token = 0 THEN 1 ELSE token

(***************************************************************************)
(* State.                                                                  *)
(***************************************************************************)
VARIABLES
  env,        \* process.env: which credentials are configured
  catalog,    \* the module-level fallbackData array
  origin,     \* "client" (through fetchResources) or "direct"
  req,        \* the parsed request: provider, query, type, ..., page, pageSize
  path,       \* the branch of the handler that serves the request
  pc,         \* where the handler is: "idle", the await it is at, or "done"
  tasks,      \* mixed mode: the tasks array, in the order it was pushed
  merged,     \* mixed mode: results.flat()
  walk,       \* youtube: pass (1 or 2), loop index i, currentToken
  primary,    \* reply of the main upstream call of a single-provider branch
  probe,      \* article feed: reply of the probe of page + 1
  calls,      \* upstream calls issued for this request, in order
  resp,       \* the response sent: status and body
  fellBack,   \* the catch of the inner try ran
  completion, \* mixed mode, when observed: the tasks' indexes as they completed
  \* POST /api/chat
  chatEnv,          \* process.env: GEMINI_API_KEY set, CHATBOT_MOCK_ON_FAILURE
  chatBody,         \* req.body: messages and model
  chatPc,           \* "idle", the axios.post the handler awaits, or "done"
  candidateModels,  \* the candidate model ids, in the order they are tried
  mIdx,             \* position in candidateModels of the loop variable m
  lastErr,          \* status of the last failed call (0 = none or no response)
  attempts,         \* the calls to the chat-completion API, with their outcome
  chatResp,         \* the response sent: status and body
  \* filterAndPaginate applied to a list of resources
  fData,      \* the list handed to the filter step
  fQuery,     \* the filter parameters
  fOnce,      \* the list filtered once
  fTwice,     \* the filtered list, filtered again with the same parameters
  fStep,      \* how many times the filter step has run
  \* the home page (pages/MyResources.tsx)
  hFilters,         \* useState filters
  hPage,            \* useState page
  hShowCategories,  \* useState showCategories
  hData,            \* what useQuery holds for the current key
  hSent,            \* the resource queries the last step sent
  hTotals,          \* totalPages the server reports, per filters
  \* the chat widget (ChatWidget / ChatPage)
  wMessages,  \* useState messages
  wInput,     \* useState input
  wLoading,   \* useState loading
  wError,     \* useState error
  wFlight,    \* bodies of the POST /api/chat not answered yet
  wSends,     \* how many POST /api/chat were sent
  \* the resources table behind SupabaseService
  dbRows,     \* the rows: id, user_id, title
  dbUid,      \* auth.uid() of the session ("" = not signed in)
  dbLog,      \* the update / delete calls made, in order
  dbInitial,  \* the rows before the first call
  \* useFavorites
  favorites,  \* useState favorites: the entries in key order
  storage,    \* localStorage['drh_favorites'] (StorageNull = no item)
  favQueue,   \* state updates queued for the next render
  favPc,      \* "mounted", "effects" (the write effect is due) or "settled"
  favChosen,  \* the favorites the user has chosen, reloads apart
  favReloads  \* how many times the page was reloaded

resourceVars == << env, catalog, origin, req, path, pc, tasks, merged, walk,
                   primary, probe, calls, resp, fellBack, completion >>
chatVars == << chatEnv, chatBody, chatPc, candidateModels, mIdx, lastErr,
               attempts, chatResp >>
filterVars == << fData, fQuery, fOnce, fTwice, fStep >>
homeVars == << hFilters, hPage, hShowCategories, hData, hSent, hTotals >>
widgetVars == << wMessages, wInput, wLoading, wError, wFlight, wSends >>
dbVars == << dbRows, dbUid, dbLog, dbInitial >>
favVars == << favorites, storage, favQueue, favPc, favChosen, favReloads >>
clientVars == << homeVars, widgetVars, dbVars, favVars >>
vars == << resourceVars, chatVars, filterVars, clientVars >>

NoRequest ==
  [ provider |-> "", query |-> "", type |-> "all", language |-> "all",
    framework |-> "all", difficulty |-> "all", tags |-> << >>,
    page |-> 1, pageSize |-> 12 ]
NoWalk == [ pass |-> 0, i |-> 0, currentToken |-> 0 ]
NoResponse == [ status |-> 0, body |-> [ items |-> << >>, total |-> 0, page |-> 0,
                                         pageSize |-> 0, totalPages |-> 0 ] ]

\* The server runs with no provider credential at all, or with all of them.
Environments ==
  { [ youtubeKey |-> FALSE, rapidKey |-> FALSE ],
    [ youtubeKey |-> TRUE, rapidKey |-> TRUE ] }

\* No chat request is being served.
NoChatBody == [ messages |-> [ kind |-> "missing", list |-> << >> ], model |-> "" ]
NoChatResponse == [ status |-> 0, body |-> [ error |-> "" ] ]
ChatIdle ==
  /\ chatBody = NoChatBody
  /\ chatPc = "idle"
  /\ candidateModels = << >>
  /\ mIdx = 0
  /\ lastErr = 0
  /\ attempts = << >>
  /\ chatResp = NoChatResponse

\* The chat endpoint without credential and without the canned reply.
ChatUnconfigured == [ geminiKey |-> FALSE, mockOnFailure |-> FALSE ]

\* The filter step has not been applied.
FilterIdle ==
  /\ fOnce = << >>
  /\ fTwice = << >>
  /\ fStep = 0

NoFilterQuery ==
  [ query |-> "", type |-> "all", language |-> "all", framework |-> "all",
    difficulty |-> "all", tags |-> << >> ]

\* The home page as useState initialises it, before its first query.
DefaultFilters == [ type |-> "all", language |-> "all" ]
QueryLoading == [ status |-> "loading", totalPages |-> 0, some |-> FALSE ]
HomeIdle ==
  /\ hFilters = DefaultFilters
  /\ hPage = 1
  /\ hShowCategories = TRUE
  /\ hData = QueryLoading
  /\ hSent = { }
  /\ hTotals = << >>

\* The chat widget as useState initialises it.
SystemMessage == [ role |-> "system", content |-> "You are a helpful assistant." ]
NoError == "<null>"
WidgetIdle ==
  /\ wMessages = << SystemMessage >>
  /\ wInput = ""
  /\ wLoading = FALSE
  /\ wError = NoError
  /\ wFlight = << >>
  /\ wSends = 0

\* An empty resources table and no session.
DbIdle ==
  /\ dbRows = { }
  /\ dbUid = ""
  /\ dbLog = << >>
  /\ dbInitial = { }

\* The hook is not mounted and nothing is stored.
StorageNull == [ present |-> FALSE, raw |-> << >> ]
FavIdle ==
  /\ favorites = << >>
  /\ storage = StorageNull
  /\ favQueue = << >>
  /\ favPc = "unmounted"
  /\ favChosen = << >>
  /\ favReloads = 0

ClientIdle == HomeIdle /\ WidgetIdle /\ DbIdle /\ FavIdle

\* No resource request is being served.
ResourceIdle ==
  /\ catalog = fallbackData
  /\ origin = "direct"
  /\ req = NoRequest
  /\ path = "none"
  /\ pc = "idle"
  /\ tasks = << >>
  /\ merged = << >>
  /\ walk = NoWalk
  /\ primary = NoReply
  /\ probe = NoReply
  /\ calls = << >>
  /\ resp = NoResponse
  /\ fellBack = FALSE
  /\ completion = << >>

\* The server serves nothing: the state the client-side models run in.
ServerIdle ==
  /\ env = [ youtubeKey |-> FALSE, rapidKey |-> FALSE ]
  /\ ResourceIdle
  /\ chatEnv = ChatUnconfigured
  /\ ChatIdle
  /\ fData = << >>
  /\ fQuery = NoFilterQuery
  /\ FilterIdle

Init ==
  /\ chatEnv = ChatUnconfigured
  /\ ChatIdle
  /\ fData = << >>
  /\ fQuery = NoFilterQuery
  /\ FilterIdle
  /\ ClientIdle
  /\ env \in Environments
  /\ catalog = fallbackData
  /\ origin = "direct"
  /\ req = NoRequest
  /\ path = "none"
  /\ pc = "idle"
  /\ tasks = << >>
  /\ merged = << >>
  /\ walk = NoWalk
  /\ primary = NoReply
  /\ probe = NoReply
  /\ calls = << >>
  /\ resp = NoResponse
  /\ fellBack = FALSE
  /\ completion = << >>

\* An upstream call as the log keeps it.
Call(api, q, page, limit) == [ api |-> api, q |-> q, page |-> page, limit |-> limit ]

\* res.json(...) ends the handler.
Send(response) ==
  /\ resp' = response
  /\ pc' = "done"

\* A throw inside the inner try while serving request r: the catch answers
\* from the catalog.
Throw(r) ==
  /\ Send(ProviderFallback(r, catalog))
  /\ fellBack' = TRUE
  /\ catalog' = DataAfterFilter(catalog, r)

(***************************************************************************)
(* Mixed mode.                                                             *)
(***************************************************************************)
Task(name) == [ name |-> name, settled |-> FALSE, reply |-> NoReply ]

\* tasks.push(...) three times; the video task only with a credential.
MixedTasks(e) ==
  << Task("devto") >> \o (IF e.youtubeKey THEN << Task("youtube") >> ELSE << >>)
     \o << Task("googlebooks") >>

\* Each async task runs up to its axios.get when it is created.
MixedCall(name, r) ==
  LET q   == SearchTerm(r)
      mps == maxPerSource(r.pageSize)
  IN  CASE name = "devto"       -> Call("devto/search", q, r.page, mps)
        [] name = "youtube"     -> Call("youtube", q, 0, mps)
        [] name = "googlebooks" -> Call("googlebooks", q, Max(0, (r.page - 1) * mps), mps)

TaskReplies(name) ==
  CASE name = "devto"       -> Replies(DevArticles, { 0 }, { 0 })
    [] name = "youtube"     -> Replies(YoutubeItems(1), { 0 }, { 0 })
    [] name = "googlebooks" -> Replies(GoogleVolumes, { 0 }, { 0 })

\* What a task maps a successful reply to.
TaskBody(name, reply) ==
  CASE name = "devto"       -> MapSeq(reply.items, mapDevToArticleToResource)
    [] name = "youtube"     -> mapYoutubeItems(reply.items)
    [] name = "googlebooks" -> MapSeq(reply.items, mapGoogleBooksVolume)

\* Variant without the per-task catch: a failed call rejects its task.
TaskOutcomeNoCatch(name, reply) ==
  IF reply.ok THEN [ rejected |-> FALSE, value |-> TaskBody(name, reply) ]
  ELSE [ rejected |-> TRUE, value |-> << >> ]

\* (async () => {...})().catch(() => []): a failed call resolves to [].
TaskOutcome(name, reply) ==
  IF reply.ok THEN [ rejected |-> FALSE, value |-> TaskBody(name, reply) ]
  ELSE [ rejected |-> FALSE, value |-> << >> ]

\* Variant of the de-dupe loop that keeps the last resource of every url.
DedupeKeepLast(list, seen) ==
  LET Last(i) == \A j \in (i + 1)..Len(list) : list[j].url # list[i].url
      Pick[i \in 0..Len(list)] ==
        IF i = 0 THEN << >>
        ELSE IF Last(i) THEN Append(Pick[i - 1], list[i]) ELSE Pick[i - 1]
  IN  Pick[Len(list)]

\* The de-dupe loop: keep the first resource of every url.
RECURSIVE DedupeByUrl(_, _)
DedupeByUrl(list, seen) ==
  IF list = << >> THEN << >>
  ELSE IF Head(list).url \in seen THEN DedupeByUrl(Tail(list), seen)
  ELSE << Head(list) >> \o DedupeByUrl(Tail(list), seen \cup { Head(list).url })

MixedResponse(r, all) ==
  LET unique == DedupeByUrl(all, {})
      items  == JsSlice(unique, 0, r.pageSize)
  IN  Ok200(items, Len(items), r.page, r.pageSize, 1)

\* Variant that collects the values as the tasks complete, first done first.
PromiseAllByCompletion(ts) ==
  [ n \in 1..Len(ts) |->
      LET k == completion[n]
      IN  TaskOutcome(ts[k].name, ts[k].reply).value ]

\* The value await Promise.all(tasks) resolves to: the tasks' values in the
\* order of the tasks array, whatever the order of completion.
PromiseAll(ts) == [ k \in 1..Len(ts) |-> TaskOutcome(ts[k].name, ts[k].reply).value ]

\* One of the concurrent upstream calls completes, in any order.
TaskSettle ==
  /\ pc = "mixed"
  /\ \E k \in 1..Len(tasks) :
       /\ ~tasks[k].settled
       /\ \E reply \in TaskReplies(tasks[k].name) :
            tasks' = [tasks EXCEPT ![k] = [ name |-> tasks[k].name, settled |-> TRUE,
                                            reply |-> reply ]]
  /\ UNCHANGED << env, catalog, origin, req, path, pc, merged, walk, primary,
                  probe, calls, resp, fellBack >>
  /\ UNCHANGED << chatVars, filterVars, clientVars, completion >>

\* await Promise.all(tasks): resolves when every task has resolved, rejects
\* as soon as one task has rejected.
MixedJoin ==
  /\ pc = "mixed"
  /\ LET outcome(k) == TaskOutcome(tasks[k].name, tasks[k].reply)
     IN  \/ /\ \E k \in 1..Len(tasks) : tasks[k].settled /\ outcome(k).rejected
            /\ Throw(req)
            /\ UNCHANGED merged
         \/ /\ \A k \in 1..Len(tasks) : tasks[k].settled /\ ~outcome(k).rejected
            /\ merged' = Flat(PromiseAll(tasks))
            /\ Send(MixedResponse(req, merged'))
            /\ UNCHANGED << fellBack, catalog >>
  /\ UNCHANGED << env, origin, req, path, tasks, walk, primary, probe, calls >>
  /\ UNCHANGED << chatVars, filterVars, clientVars, completion >>

(***************************************************************************)
(* Single-provider branches with one upstream call.                        *)
(***************************************************************************)
GoogleBooksCall(r) ==
  LET maxResults == Capped(GoogleBooksCap, r.pageSize)
  IN  Call("googlebooks", OrElse(r.query, FirstTagOr(r.tags, "programming")),
           Max(0, (r.page - 1) * maxResults), maxResults)

GoogleBooksResponse(r, reply) ==
  LET maxResults == Capped(GoogleBooksCap, r.pageSize)
      totalItems == reply.total
      mapped     == MapSeq(reply.items, mapGoogleBooksVolume)
      filtered   == TypeFilter(mapped, r.type)
      totalPages == Max(1, CeilDiv(totalItems, maxResults))
  IN  Ok200(filtered, totalItems, r.page, maxResults, totalPages)

FreeBooksCall(r) == Call("freebooks", Genre(r), Max(1, r.page), 0)

\* Variant that never announces a next page: hasNext is false.
FreeBooksResponseLastPage(r, reply) ==
  LET genre    == Genre(r)
      pageNum  == Max(1, r.page)
      mapped   == [i \in 1..Len(reply.items) |->
                     mapFreeBook(reply.items[i], i - 1, genre, pageNum)]
      filtered == TypeFilter(mapped, r.type)
      total    == (r.page - 1) * r.pageSize + Len(filtered)
  IN  Ok200(filtered, total, r.page, r.pageSize, r.page)

FreeBooksResponse(r, reply) ==
  LET genre    == Genre(r)
      pageNum  == Max(1, r.page)
      mapped   == [i \in 1..Len(reply.items) |->
                     mapFreeBook(reply.items[i], i - 1, genre, pageNum)]
      filtered == TypeFilter(mapped, r.type)
      hasNext  == Len(filtered) > 0
      totalPages == IF hasNext THEN r.page + 1 ELSE r.page
      total    == (r.page - 1) * r.pageSize + Len(filtered) + (IF hasNext THEN 1 ELSE 0)
  IN  Ok200(filtered, total, r.page, r.pageSize, totalPages)

OpenLibraryCall(r) ==
  Call("openlibrary", SearchTerm(r), r.page, Capped(OpenLibraryCap, r.pageSize))

OpenLibraryResponse(r, reply) ==
  LET limit    == Capped(OpenLibraryCap, r.pageSize)
      mapped   == MapSeq(reply.items, mapOpenLibraryDoc)
      filtered == TypeFilter(mapped, r.type)
      numFound == reply.total
      totalPages == Max(1, CeilDiv(numFound, limit))
      safeTotalPages == IF totalPages > 0 THEN totalPages ELSE r.page
  IN  Ok200(filtered, numFound, r.page, limit, safeTotalPages)

SingleReplies(p) ==
  CASE p = "googlebooks" -> Replies(GoogleVolumes, UpstreamTotals, { 0 })
    [] p = "freebooks"   -> Replies(FreeBooks, { 0 }, { 0 })
    [] p = "openlibrary" -> Replies(OpenLibraryDocs, UpstreamTotals, { 0 })

SingleResponse(p, r, reply) ==
  CASE p = "googlebooks" -> GoogleBooksResponse(r, reply)
    [] p = "freebooks"   -> FreeBooksResponse(r, reply)
    [] p = "openlibrary" -> OpenLibraryResponse(r, reply)

\* The awaited axios.get of the googlebooks, freebooks or openlibrary branch
\* returns or throws.
SingleReply ==
  /\ pc = "single"
  /\ \E reply \in SingleReplies(path) :
       /\ primary' = reply
       /\ IF reply.ok
          THEN Send(SingleResponse(path, req, reply)) /\ UNCHANGED << fellBack, catalog >>
          ELSE Throw(req)
  /\ UNCHANGED << env, origin, req, path, tasks, merged, walk, probe, calls >>
  /\ UNCHANGED << chatVars, filterVars, clientVars, completion >>

(***************************************************************************)
(* The video search branch: cursor walk, then the fetch of the page.       *)
(***************************************************************************)
YoutubeQuery(r) == OrElse(r.query, "programming tutorials")

YoutubeCall(r, token) == Call("youtube", YoutubeQuery(r), token, Capped(YoutubeCap, r.pageSize))

\* A hop of the walk: only nextPageToken of the reply is read.
HopReplies(token) ==
  { FailedReply } \cup
  [ ok : { TRUE }, items : { << >> }, total : { 0 }, next : { 0, TokenPage(token) + 1 } ]

\* The fetch of the page: the upstream serves the page the token stands for
\* (the first page without a token).
FetchReplies(token) ==
  Replies(YoutubeItems(TokenPage(token)), { 0 }, { 0, TokenPage(token) + 1 })

YoutubeResponse(r, reply) ==
  LET mapped   == mapYoutubeItems(reply.items)
      hasNext  == reply.next # 0
      totalPages == IF hasNext THEN r.page + 1 ELSE r.page
      total    == (r.page - 1) * r.pageSize + Len(mapped) + (IF hasNext THEN 1 ELSE 0)
      filtered == TypeFilter(mapped, r.type)
  IN  Ok200(filtered, total, r.page, r.pageSize, totalPages)

\* Variant of the loop that runs to twice the requested page.
LoopEndsLate(currentToken, i, page) == currentToken = 0 \/ ~(i + 1 < 2 * page)

\* After the hop of iteration i: `if (!currentToken) break`, else i++ and the
\* test i < page.
LoopEnds(currentToken, i, page) == currentToken = 0 \/ ~(i + 1 < page)

\* One awaited axios.get inside `for (let i = 1; i < page; i++)`, in the first
\* walk (whose token is dropped) or in the second one.
YoutubeHop ==
  /\ pc = "yt_walk"
  /\ \E reply \in HopReplies(walk.currentToken) :
       IF ~reply.ok
       THEN /\ Throw(req)
            /\ UNCHANGED << walk, calls >>
       ELSE LET currentToken == reply.next
                loopEnds == LoopEnds(currentToken, walk.i, req.page)
            IN  /\ UNCHANGED << resp, fellBack, catalog >>
                /\ IF ~loopEnds
                   THEN \* next iteration of the same walk
                        /\ walk' = [ pass |-> walk.pass, i |-> walk.i + 1,
                                     currentToken |-> currentToken ]
                        /\ calls' = Append(calls, YoutubeCall(req, currentToken))
                        /\ pc' = "yt_walk"
                   ELSE IF walk.pass = 1
                   THEN \* pageToken = undefined; the second walk starts over
                        /\ walk' = [ pass |-> 2, i |-> 1, currentToken |-> 0 ]
                        /\ calls' = Append(calls, YoutubeCall(req, 0))
                        /\ pc' = "yt_walk"
                   ELSE \* if (currentToken) fetchParams.pageToken = currentToken
                        /\ walk' = [ pass |-> 2, i |-> walk.i, currentToken |-> currentToken ]
                        /\ calls' = Append(calls, YoutubeCall(req, currentToken))
                        /\ pc' = "yt_fetch"
  /\ UNCHANGED << env, origin, req, path, tasks, merged, primary, probe >>
  /\ UNCHANGED << chatVars, filterVars, clientVars, completion >>

\* The awaited fetch of the requested page returns or throws.
YoutubeFetch ==
  /\ pc = "yt_fetch"
  /\ \E reply \in FetchReplies(walk.currentToken) :
       /\ primary' = reply
       /\ IF reply.ok
          THEN Send(YoutubeResponse(req, reply)) /\ UNCHANGED << fellBack, catalog >>
          ELSE Throw(req)
  /\ UNCHANGED << env, origin, req, path, tasks, merged, walk, probe, calls >>
  /\ UNCHANGED << chatVars, filterVars, clientVars, completion >>

(***************************************************************************)
(* The article feed (DEV.to), the code after the provider branches.        *)
(***************************************************************************)
ArticleCall(r, page) ==
  IF r.query # ""
  THEN Call("devto/search", r.query, page, r.pageSize)
  ELSE Call("devto/articles", FirstTagOr(r.tags, ""), page, r.pageSize)

ArticleItems(r, reply) == TypeFilter(MapSeq(reply.items, mapDevToArticleToResource), r.type)

\* Variant that counts the probe's raw items, before the type filter.
ProbeHasNextRaw(r, reply) == Len(reply.items) > 0

\* hasNext as the probe's try block computes it from a successful reply.
ProbeHasNext(r, reply) == Len(ArticleItems(r, reply)) > 0

\* Variant without the catch around the probe: its error leaves the block.
ProbeOutcomeNoCatch(r, reply) ==
  IF reply.ok THEN [ thrown |-> FALSE, hasNext |-> ProbeHasNext(r, reply) ]
  ELSE [ thrown |-> TRUE, hasNext |-> FALSE ]

\* try { probe } catch { /* ignore probe errors */ }: a failed probe throws
\* nothing out of the block and leaves hasNext false.
ProbeOutcome(r, reply) ==
  IF reply.ok THEN [ thrown |-> FALSE, hasNext |-> ProbeHasNext(r, reply) ]
  ELSE [ thrown |-> FALSE, hasNext |-> FALSE ]

ArticleResponse(r, first, next) ==
  LET mapped  == ArticleItems(r, first)
      hasNext == ProbeOutcome(r, next).hasNext
      totalPages == IF hasNext THEN r.page + 1 ELSE r.page
      total   == (r.page - 1) * r.pageSize + Len(mapped) + (IF hasNext THEN 1 ELSE 0)
  IN  Ok200(mapped, total, r.page, r.pageSize, totalPages)

\* The awaited primary axios.get returns (and the probe is issued) or throws.
ArticlePrimary ==
  /\ pc = "primary"
  /\ \E reply \in Replies(DevArticles, { 0 }, { 0 }) :
       /\ primary' = reply
       /\ IF reply.ok
          THEN /\ calls' = Append(calls, ArticleCall(req, req.page + 1))
               /\ pc' = "probe"
               /\ UNCHANGED << resp, fellBack, catalog >>
          ELSE /\ Throw(req)
               /\ UNCHANGED calls
  /\ UNCHANGED << env, origin, req, path, tasks, merged, walk, probe >>
  /\ UNCHANGED << chatVars, filterVars, clientVars, completion >>

\* The awaited probe returns or fails; the response is sent.
ArticleProbe ==
  /\ pc = "probe"
  /\ \E reply \in Replies(DevArticles, { 0 }, { 0 }) :
       /\ probe' = reply
       /\ IF ProbeOutcome(req, reply).thrown
          THEN Throw(req)
          ELSE Send(ArticleResponse(req, primary, reply)) /\ UNCHANGED << fellBack, catalog >>
  /\ UNCHANGED << env, origin, req, path, tasks, merged, walk, primary, calls >>
  /\ UNCHANGED << chatVars, filterVars, clientVars, completion >>

(***************************************************************************)
(* A request arrives: parse, pick the branch, run it up to its first await.*)
(***************************************************************************)
Receive(raw, from) ==
  /\ pc = "idle"
  /\ LET r == ParseQuery(raw)
         p == SelectPath(r)
     IN  /\ req' = r
         /\ origin' = from
         /\ path' = p
         /\ merged' = << >>
         /\ primary' = NoReply
         /\ probe' = NoReply
         /\ tasks' = IF p = "mixed" THEN MixedTasks(env) ELSE << >>
         /\ CASE p = "mixed" ->
                   /\ calls' = [k \in 1..Len(tasks') |-> MixedCall(tasks'[k].name, r)]
                   /\ walk' = NoWalk
                   /\ pc' = "mixed"
                   /\ resp' = NoResponse /\ fellBack' = FALSE /\ UNCHANGED catalog
              [] p = "googlebooks" ->
                   /\ calls' = << GoogleBooksCall(r) >>
                   /\ walk' = NoWalk
                   /\ pc' = "single"
                   /\ resp' = NoResponse /\ fellBack' = FALSE /\ UNCHANGED catalog
              [] p = "freebooks" ->
                   /\ walk' = NoWalk
                   /\ IF ~env.rapidKey
                      THEN Throw(r) /\ calls' = << >>
                      ELSE /\ calls' = << FreeBooksCall(r) >>
                           /\ pc' = "single"
                           /\ resp' = NoResponse /\ fellBack' = FALSE /\ UNCHANGED catalog
              [] p = "openlibrary" ->
                   /\ calls' = << OpenLibraryCall(r) >>
                   /\ walk' = NoWalk
                   /\ pc' = "single"
                   /\ resp' = NoResponse /\ fellBack' = FALSE /\ UNCHANGED catalog
              [] p = "youtube" ->
                   IF ~env.youtubeKey
                   THEN Throw(r) /\ calls' = << >> /\ walk' = NoWalk
                   ELSE /\ calls' = << YoutubeCall(r, 0) >>
                        /\ resp' = NoResponse /\ fellBack' = FALSE /\ UNCHANGED catalog
                        /\ IF r.page > 1
                           THEN walk' = [ pass |-> 1, i |-> 1, currentToken |-> 0 ]
                                /\ pc' = "yt_walk"
                           ELSE walk' = NoWalk /\ pc' = "yt_fetch"
              [] p = "article" ->
                   /\ calls' = << ArticleCall(r, r.page) >>
                   /\ walk' = NoWalk
                   /\ pc' = "primary"
                   /\ resp' = NoResponse /\ fellBack' = FALSE /\ UNCHANGED catalog
  /\ UNCHANGED env
  /\ UNCHANGED << chatVars, filterVars, clientVars, completion >>

\* A request sent straight to the server.
DirectRequest == \E raw \in DirectRequests : Receive(raw, "direct")

\* A request the client builds with fetchResources.
ClientRequest == \E params \in ClientQueries : Receive(fetchResources(params), "client")

\* The handler has returned; its locals are gone and the server waits for the
\* next request.
Finish ==
  /\ pc = "done"
  /\ pc' = "idle"
  /\ origin' = "direct"
  /\ req' = NoRequest
  /\ path' = "none"
  /\ tasks' = << >>
  /\ merged' = << >>
  /\ walk' = NoWalk
  /\ primary' = NoReply
  /\ probe' = NoReply
  /\ calls' = << >>
  /\ resp' = NoResponse
  /\ fellBack' = FALSE
  /\ completion' = << >>
  /\ UNCHANGED << env, catalog >>
  /\ UNCHANGED << chatVars, filterVars, clientVars >>

Next ==
  \/ DirectRequest
  \/ ClientRequest
  \/ Finish
  \/ TaskSettle
  \/ MixedJoin
  \/ SingleReply
  \/ YoutubeHop
  \/ YoutubeFetch
  \/ ArticlePrimary
  \/ ArticleProbe

Spec == Init /\ [][Next]_vars

(***************************************************************************)
(* Mixed mode with the order of completion of the concurrent calls         *)
(* observed: the same handler, for requests served in mixed mode, with the *)
(* index of every task noted when its call completes.                      *)
(***************************************************************************)
\* Requests served in mixed mode: no provider or 'mixed', no type or 'all'.
MixedRequests ==
  { raw \in DirectRequests :
      /\ IsMixed(ParseQuery(raw))
      /\ raw.tags = "" /\ raw.page = "" }

MixedInit == Init

MixedRequest == \E raw \in MixedRequests : Receive(raw, "direct")

\* One of the concurrent upstream calls completes, in any order; the order
\* is noted.
TaskSettleInOrder ==
  /\ pc = "mixed"
  /\ \E k \in 1..Len(tasks) :
       /\ ~tasks[k].settled
       /\ completion' = Append(completion, k)
       /\ \E reply \in TaskReplies(tasks[k].name) :
            tasks' = [tasks EXCEPT ![k] = [ name |-> tasks[k].name, settled |-> TRUE,
                                            reply |-> reply ]]
  /\ UNCHANGED << env, catalog, origin, req, path, pc, merged, walk, primary,
                  probe, calls, resp, fellBack >>
  /\ UNCHANGED << chatVars, filterVars, clientVars >>

MixedNext ==
  \/ MixedRequest
  \/ TaskSettleInOrder
  \/ MixedJoin
  \/ Finish

MixedSpec == MixedInit /\ [][MixedNext]_vars

(***************************************************************************)
(* The video provider on its own, with the upstream calls completing: an   *)
(* axios.get with a timeout returns or throws, so an awaited call is       *)
(* always followed by the handler's next step.                             *)
(***************************************************************************)
\* Requests for the video provider (its branch does not read the tags).
VideoRequests ==
  { raw \in DirectRequests : raw.provider = "youtube" /\ raw.tags = "" }

VideoInit == Init

VideoRequest == \E raw \in VideoRequests : Receive(raw, "direct")

VideoNext ==
  \/ VideoRequest
  \/ YoutubeHop
  \/ YoutubeFetch
  \/ Finish

VideoSpec ==
  /\ VideoInit
  /\ [][VideoNext]_vars
  /\ WF_vars(YoutubeHop)
  /\ WF_vars(YoutubeFetch)

(***************************************************************************)
(* The filter step of filterAndPaginate on its own: a list of resources    *)
(* and filter parameters are chosen, the step is applied, and applied      *)
(* again to its own result.                                                *)
(***************************************************************************)
MaxFilterLen == 2

\* Resources handed to the filter: the catalog's entries, a mapped video and
\* a resource whose tag differs from a query only in case.
FilterResources ==
  { fallbackData[1], fallbackData[2],
    mapYoutubeItem([ videoId |-> "v1a", snippet |-> TRUE ]),
    [ id |-> "r4", title |-> "Compose", description |-> "", url |-> "#",
      type |-> "video", language |-> "docker", framework |-> "react",
      difficulty |-> "beginner", tags |-> << "Docker", "free" >> ] }

FilterQueries ==
  [ query : { "", "DOCK", "docs" }, type : { "", "all", "doc" },
    language : { "all", "docker" }, framework : { "all", "react" },
    difficulty : { "all", "beginner" },
    tags : { << >>, << "docs", "free" >>, << "devops" >> } ]

FilterInit ==
  /\ env = [ youtubeKey |-> FALSE, rapidKey |-> FALSE ]
  /\ ResourceIdle
  /\ chatEnv = ChatUnconfigured
  /\ ChatIdle
  /\ fData \in BoundedSeq(FilterResources, MaxFilterLen)
  /\ fQuery \in FilterQueries
  /\ FilterIdle
  /\ ClientIdle

\* The six `if (...) filtered = filtered.filter(...)` statements run.
FilterOnce ==
  /\ fStep = 0
  /\ fOnce' = ApplyFilters(fData, fQuery)
  /\ fStep' = 1
  /\ UNCHANGED << fData, fQuery, fTwice, resourceVars, chatVars, clientVars >>

\* They run again, on the list they produced.
FilterAgain ==
  /\ fStep = 1
  /\ fTwice' = ApplyFilters(fOnce, fQuery)
  /\ fStep' = 2
  /\ UNCHANGED << fData, fQuery, fOnce, resourceVars, chatVars, clientVars >>

FilterNext ==
  \/ FilterOnce
  \/ FilterAgain

FilterSpec == FilterInit /\ [][FilterNext]_vars

(***************************************************************************)
(* POST /api/chat: a pass-through to the chat-completion API.  Every       *)
(* awaited axios.post is one step; the reply of the upstream (a success or *)
(* a failure with its HTTP status) is chosen by the environment.           *)
(***************************************************************************)
ChatEnvironments == [ geminiKey : BOOLEAN, mockOnFailure : BOOLEAN ]

\* req.body.messages: missing, not an array, or an array of messages.
ChatMessageValues ==
  { [ kind |-> "missing", list |-> << >> ],
    [ kind |-> "string", list |-> << >> ],
    [ kind |-> "array", list |-> << >> ],
    [ kind |-> "array", list |-> << [ role |-> "user", content |-> "hi" ] >> ] }

\* req.body.model ("" = absent).
ChatModels == { "", "flash", "PRO", "gemini-1.5-flash-8b", "gemini-2.0" }

ChatBodies == [ messages : ChatMessageValues, model : ChatModels ]

\* Variant of the validation that accepts every array, the empty one too.
ValidMessagesAnyArray(messages) == messages.kind = "array"

\* !(!Array.isArray(messages) || messages.length === 0)
ValidMessages(messages) == messages.kind = "array" /\ Len(messages.list) # 0

\* normalize[requestedModelRaw] || requestedModelRaw
normalize(raw) ==
  CASE raw = "gemini-1.5-flash-latest" -> "gemini-1.5-flash"
    [] raw = "gemini-1.5-pro-latest"   -> "gemini-1.5-pro"
    [] raw = "flash"                   -> "gemini-1.5-flash"
    [] raw = "pro"                     -> "gemini-1.5-pro"
    [] raw = "latest"                  -> "gemini-1.5-flash"
    [] OTHER                           -> raw

requestedModel(model) ==
  normalize(ToLowerCase(IF Len(model) # 0 THEN model ELSE "gemini-1.5-flash"))

\* Array.from(new Set(list)): the first occurrence of every value, in order.
RECURSIVE FromSet(_, _)
FromSet(list, seen) ==
  IF list = << >> THEN << >>
  ELSE IF Head(list) \in seen THEN FromSet(Tail(list), seen)
  ELSE << Head(list) >> \o FromSet(Tail(list), seen \cup { Head(list) })

CandidateModels(model) ==
  FromSet(<< requestedModel(model), "gemini-1.5-flash", "gemini-1.5-flash-8b",
             "gemini-1.5-pro" >>, {})

\* What an axios.post can end in: 200, or a failure with the upstream's
\* status; NoStatus is a failure without a response (timeout, network).
NoStatus == 0
Pending == 0 - 1
ChatOutcomes == { 200, 403, 404, 500, NoStatus }

\* Variant that goes on after every failure.
RetryableAlways(status) == TRUE

\* status === 404 || status === 403
Retryable(status) == status = 404 \/ status = 403

\* A call to the chat-completion API for model m, as the log keeps it.
Attempt(m, api) == [ model |-> m, api |-> api, status |-> Pending ]

\* The awaited call returned or threw: its outcome is noted in the log.
Settled(log, status) == [log EXCEPT ![Len(log)].status = status]

ChatSend(response) ==
  /\ chatResp' = response
  /\ chatPc' = "done"

\* res.json({ content: text, model: m })
ChatOk(m) == [ status |-> 200, body |-> [ content |-> "Hello", model |-> m ] ]

\* After the loop: the canned reply when it is enabled, else the error with
\* the status of the last failure (500 when it had none).
ChatFailure(e, err) ==
  IF e.mockOnFailure
  THEN [ status |-> 200, body |-> [ content |-> "Mock reply", model |-> "mock" ] ]
  ELSE [ status |-> IF err # NoStatus THEN err ELSE 500,
         body   |-> [ error |-> "Failed to get chat response" ] ]

ChatInit ==
  /\ env = [ youtubeKey |-> FALSE, rapidKey |-> FALSE ]
  /\ ResourceIdle
  /\ chatEnv \in ChatEnvironments
  /\ ChatIdle
  /\ fData = << >>
  /\ fQuery = NoFilterQuery
  /\ FilterIdle
  /\ ClientIdle

\* The handler runs up to its first await, or to an early return.
ChatRequest ==
  /\ chatPc = "idle"
  /\ \E body \in ChatBodies :
       /\ chatBody' = body
       /\ IF ~chatEnv.geminiKey
          THEN /\ ChatSend([ status |-> 500,
                             body |-> [ error |-> "GEMINI_API_KEY is not set on the server" ] ])
               /\ UNCHANGED << candidateModels, mIdx, lastErr, attempts >>
          ELSE IF ~ValidMessages(body.messages)
          THEN /\ ChatSend([ status |-> 400,
                             body |-> [ error |-> "Request body must include non-empty messages array" ] ])
               /\ UNCHANGED << candidateModels, mIdx, lastErr, attempts >>
          ELSE /\ candidateModels' = CandidateModels(body.model)
               /\ mIdx' = 1
               /\ lastErr' = NoStatus
               /\ attempts' = << Attempt(candidateModels'[1], "v1beta") >>
               /\ chatPc' = "v1beta"
               /\ UNCHANGED chatResp
  /\ UNCHANGED << chatEnv, resourceVars, filterVars, clientVars >>

\* The call to the v1beta endpoint for candidate m returns or throws.
ChatV1Beta ==
  /\ chatPc = "v1beta"
  /\ \E status \in ChatOutcomes :
       LET m == candidateModels[mIdx]
       IN  IF status = 200
           THEN /\ attempts' = Settled(attempts, status)
                /\ ChatSend(ChatOk(m))
                /\ UNCHANGED << mIdx, lastErr >>
           ELSE /\ lastErr' = status
                /\ UNCHANGED mIdx
                /\ IF Retryable(status)
                   THEN /\ attempts' = Append(Settled(attempts, status), Attempt(m, "v1"))
                        /\ chatPc' = "v1"
                        /\ UNCHANGED chatResp
                   ELSE /\ attempts' = Settled(attempts, status)
                        /\ ChatSend(ChatFailure(chatEnv, status))
  /\ UNCHANGED << chatEnv, chatBody, candidateModels, resourceVars, filterVars, clientVars >>

\* The call to the v1 endpoint for candidate m returns or throws.
ChatV1 ==
  /\ chatPc = "v1"
  /\ \E status \in ChatOutcomes :
       LET m == candidateModels[mIdx]
       IN  IF status = 200
           THEN /\ attempts' = Settled(attempts, status)
                /\ ChatSend(ChatOk(m))
                /\ UNCHANGED << mIdx, lastErr >>
           ELSE /\ lastErr' = status
                /\ IF Retryable(status) /\ mIdx < Len(candidateModels)
                   THEN \* continue: the next candidate model
                        /\ mIdx' = mIdx + 1
                        /\ attempts' = Append(Settled(attempts, status),
                                              Attempt(candidateModels[mIdx + 1], "v1beta"))
                        /\ chatPc' = "v1beta"
                        /\ UNCHANGED chatResp
                   ELSE \* break, or the list is exhausted
                        /\ attempts' = Settled(attempts, status)
                        /\ ChatSend(ChatFailure(chatEnv, status))
                        /\ UNCHANGED mIdx
  /\ UNCHANGED << chatEnv, chatBody, candidateModels, resourceVars, filterVars, clientVars >>

\* The handler has returned.
ChatFinish ==
  /\ chatPc = "done"
  /\ chatBody' = NoChatBody
  /\ chatPc' = "idle"
  /\ candidateModels' = << >>
  /\ mIdx' = 0
  /\ lastErr' = 0
  /\ attempts' = << >>
  /\ chatResp' = NoChatResponse
  /\ UNCHANGED << chatEnv, resourceVars, filterVars, clientVars >>

ChatNext ==
  \/ ChatRequest
  \/ ChatV1Beta
  \/ ChatV1
  \/ ChatFinish

ChatSpec == ChatInit /\ [][ChatNext]_vars

(***************************************************************************)
(* Properties.                                                             *)
(***************************************************************************)
Done == pc = "done"
Items == resp.body.items
ResponseFields == { "items", "total", "page", "pageSize", "totalPages" }

\* The main upstream call of a single-provider request failed, or could not
\* be made (missing credential, failed hop of the cursor walk).
SingleFailed == Done /\ path # "mixed" /\ ~primary.ok
\* Every adapter call of a mixed request failed.
MixedAllFailed == Done /\ path = "mixed" /\ \A k \in 1..Len(tasks) : ~tasks[k].reply.ok

\* The page of the catalog the request's parameters select.
CatalogPage ==
  LET filtered == ApplyFilters(catalog, req)
  IN  JsSlice(filtered, (req.page - 1) * req.pageSize,
              (req.page - 1) * req.pageSize + req.pageSize)

\* C1: every request to GET /api/resources is answered with HTTP 200 and a
\* body with exactly the fields items, total, page, pageSize and totalPages,
\* whatever the parameters, the configured credentials and the upstream
\* failures; no response carries an error status.
C1_AlwaysSuccess ==
  Done => resp.status = 200 /\ DOMAIN resp.body = ResponseFields

\* C1 witness: a request answered 200 although every upstream call failed.
C1_Witness ==
  /\ MixedAllFailed
  /\ resp.status = 200

\* C2: in every response totalPages >= 1 and 0 <= items.length <= pageSize
\* (the pageSize the response carries).
C2_PageShape ==
  Done => /\ resp.body.totalPages >= 1
          /\ Len(Items) <= resp.body.pageSize

\* C3: in mixed mode no url occurs twice in the response, every returned
\* item is the first resource with its url in adapter-invocation order
\* (article, video, book), the items keep their first-seen order, and a url
\* is missing only when the page is already full (truncation to pageSize).
FirstIndexOfUrl(u) == CHOOSE m \in 1..Len(merged) :
                        merged[m].url = u /\ \A n \in 1..(m - 1) : merged[n].url # u

C3_DedupeFirstWins ==
  (Done /\ path = "mixed" /\ ~fellBack) =>
    /\ \A i, j \in 1..Len(Items) : i < j => Items[i].url # Items[j].url
    /\ \A i \in 1..Len(Items) :
         /\ \E m \in 1..Len(merged) : merged[m].url = Items[i].url
         /\ Items[i] = merged[FirstIndexOfUrl(Items[i].url)]
    /\ \A i, j \in 1..Len(Items) :
         i < j => FirstIndexOfUrl(Items[i].url) < FirstIndexOfUrl(Items[j].url)
    /\ \A m \in 1..Len(merged) :
         \/ \E i \in 1..Len(Items) : Items[i].url = merged[m].url
         \/ Len(Items) >= req.pageSize

\* C3 witness: two adapters returned different resources with one url and
\* the response holds the earlier one only.
C3_Witness ==
  /\ Done /\ path = "mixed"
  /\ \E m, n \in 1..Len(merged) :
       /\ m < n
       /\ merged[m].url = merged[n].url
       /\ merged[m] # merged[n]
       /\ \E i \in 1..Len(Items) : Items[i] = merged[m]
       /\ \A i \in 1..Len(Items) : Items[i] # merged[n]

\* C4: in mixed mode the response is sent only after every adapter call has
\* settled, a failed call never makes the request fall back or drops the
\* others' results: the merge is the concatenation, in task order, of the
\* mapped items of the successful calls and of nothing for the failed ones.
MergedOffset(k) ==
  LET Count[j \in 0..Len(tasks)] ==
        IF j = 0 THEN 0
        ELSE Count[j - 1] + (IF tasks[j].reply.ok
                             THEN Len(TaskBody(tasks[j].name, tasks[j].reply)) ELSE 0)
  IN  Count[k]

C4_FailuresIsolated ==
  (Done /\ path = "mixed") =>
    /\ \A k \in 1..Len(tasks) : tasks[k].settled
    /\ ~fellBack
    /\ Len(merged) = MergedOffset(Len(tasks))
    /\ \A k \in 1..Len(tasks) :
         tasks[k].reply.ok =>
           LET body == TaskBody(tasks[k].name, tasks[k].reply)
           IN  \A i \in 1..Len(body) : merged[MergedOffset(k - 1) + i] = body[i]

\* C4 witness: one call failed, another returned an item, and that item is in
\* the response.
C4_Witness ==
  /\ Done /\ path = "mixed"
  /\ \E k, l \in 1..Len(tasks) :
       /\ ~tasks[k].reply.ok
       /\ tasks[l].reply.ok
       /\ Len(TaskBody(tasks[l].name, tasks[l].reply)) > 0
       /\ \E i \in 1..Len(Items) : Items[i] = TaskBody(tasks[l].name, tasks[l].reply)[1]

\* C5 (as stated): whenever every adapter used for a request fails, in mixed
\* mode as in single-provider mode, the response items are the page of the
\* static catalog the request's parameters select.
C5_FallbackInEveryMode ==
  (SingleFailed \/ MixedAllFailed) => Items = CatalogPage

\* C5 (amended): when the adapter of a single-provider request fails, the
\* response is the filtered and sliced static catalog; when every adapter of
\* a mixed request fails, the catalog is not used and the response is the
\* empty page with total 0 and totalPages 1.
C5_FallbackSingleProviderOnly ==
  /\ SingleFailed =>
       /\ fellBack
       /\ resp.status = 200
       /\ Items = CatalogPage
       /\ \A i \in 1..Len(Items) : \E c \in 1..Len(catalog) : Items[i] = catalog[c]
       /\ resp.body.total = Len(ApplyFilters(catalog, req))
  /\ MixedAllFailed =>
       /\ ~fellBack
       /\ Items = << >>
       /\ resp.body.total = 0
       /\ resp.body.totalPages = 1

\* C5 witness: a single-provider request whose upstream call failed is
\* answered with entries of the catalog.
C5_Witness ==
  /\ SingleFailed
  /\ calls # << >>
  /\ Len(Items) > 0
  /\ Items = CatalogPage

\* C6: on the article-feed path the page metadata follows the probe of
\* page + 1.  The probe's yield is what the primary page's yield is: the
\* mapped items that pass the request's type filter.  With at least one such
\* item totalPages = page + 1 and total = (page-1)*pageSize + n + 1;
\* with none (or a failed probe) totalPages = page and
\* total = (page-1)*pageSize + n, n the number of items on this page.
ProbeYield ==
  Cardinality({ i \in 1..Len(probe.items) :
                  req.type = "all" \/ detectTypeFromUrl(probe.items[i].canonical_url) = req.type })

C7_ProbeFailureSwallowed ==
  (Done /\ path = "article" /\ primary.ok /\ ~probe.ok) =>
    /\ resp.status = 200
    /\ ~fellBack
    /\ Items = ArticleItems(req, primary)
    /\ resp.body.totalPages = req.page
    /\ resp.body.total = (req.page - 1) * req.pageSize + Len(Items)

\* C7 witness: the probe failed and the response carries an item of the
\* primary page.
C7_Witness ==
  /\ Done /\ path = "article" /\ primary.ok /\ ~probe.ok
  /\ Len(calls) = 2
  /\ Len(Items) > 0

\* C8: for the video provider, when page N > 1 is requested and a hop of the
\* cursor chain returns no continuation token before page N is reached, the
\* response is an empty page, and no error.
ChainBroke == path = "youtube" /\ req.page > 1 /\ walk.pass = 2 /\ walk.currentToken = 0

C8_BrokenChainEmptyPage ==
  (Done /\ ChainBroke /\ primary.ok) =>
    /\ resp.status = 200
    /\ Items = << >>

\* C9 (as stated): GET /api/resources?type=video&page=1&pageSize=10, with no
\* video credential configured, is served in single-provider mode, falls
\* back, and answers an empty items array with totalPages = 1.
VideoScenario ==
  /\ ~env.youtubeKey
  /\ req.type = "video" /\ req.page = 1 /\ req.pageSize = Number(ScenarioPageSizeParam)
  /\ req.query = "" /\ req.tags = << >>

C9_VideoScenarioWithoutProvider ==
  (Done /\ VideoScenario /\ req.provider = "") =>
    /\ path # "mixed"
    /\ fellBack
    /\ Items = << >>
    /\ resp.body.totalPages = 1

\* C9 (amended): the scenario holds for the request that names the video
\* provider, GET /api/resources?provider=youtube&type=video&page=1&pageSize=10
\* (what fetchResources sends for type video): with no video credential no
\* upstream call is made, the catalog answers, and the response is 200 with
\* an empty items array, total 0 and totalPages 1.  Without the provider
\* parameter the request is served by the article feed.
C9_VideoScenarioWithProvider ==
  /\ (Done /\ VideoScenario /\ req.provider = "youtube") =>
       /\ path = "youtube"
       /\ calls = << >>
       /\ fellBack
       /\ resp.status = 200
       /\ Items = << >>
       /\ resp.body.total = 0
       /\ resp.body.totalPages = 1
  /\ (pc # "idle" /\ VideoScenario /\ req.provider = "") => path = "article"

\* C9 witness: the scenario request naming the video provider was answered.
C9_Witness ==
  /\ Done /\ VideoScenario /\ req.provider = "youtube"
  /\ fellBack

\* C10 (as stated): for every combination of type and tags the client's
\* routing selects the video adapter for type video, googlebooks for type pdf
\* or a 'free' tag, and openlibrary for type doc or book.
HasFreeTag == ArrayIncludes(req.tags, "free")

AdapterNames == { "youtube", "googlebooks", "freebooks", "openlibrary" }

ExpectedProvider ==
  IF req.type = "doc" THEN "openlibrary"
  ELSE IF req.type = "pdf" \/ HasFreeTag THEN "googlebooks"
  ELSE IF req.type = "video" THEN "youtube"
  ELSE IF req.type = "book" THEN "openlibrary"
  ELSE "mixed"

C11_PagingClamped ==
  /\ pc # "idle" => req.page >= 1 /\ req.pageSize >= 1
  /\ Done => resp.body.page >= 1 /\ resp.body.pageSize >= 1

\* C12: the filter step is idempotent: filtering the filtered list again
\* with the same parameters gives the same resources (the same list, hence
\* the same set) as filtering once.
C12_FilterIdempotent ==
  fStep = 2 =>
    /\ fTwice = fOnce
    /\ { fTwice[i] : i \in 1..Len(fTwice) } = { fOnce[i] : i \in 1..Len(fOnce) }

\* C12 witness: the filter kept one resource and dropped another, and has
\* been applied to its own result.
C12_Witness ==
  /\ fStep = 2
  /\ Len(fOnce) > 0
  /\ Len(fOnce) < Len(fData)

\* C13: a resource passes the filter exactly when each of type, language,
\* framework and difficulty is absent, 'all' or equal to the resource's
\* field, the tag list is empty or shares at least one tag with the
\* resource (ANY, not ALL), and the free-text query is empty or is, case
\* ignored, a substring of the title, the description or some tag.
FieldPasses(wanted, actual) == wanted = "" \/ wanted = "all" \/ wanted = actual

SharedTags(r) ==
  { fQuery.tags[i] : i \in 1..Len(fQuery.tags) } \cap { r.tags[j] : j \in 1..Len(r.tags) }

TextPasses(r) ==
  LET q == ToLowerCase(fQuery.query)
  IN  \/ fQuery.query = ""
      \/ Includes(ToLowerCase(r.title), q)
      \/ Includes(ToLowerCase(r.description), q)
      \/ \E j \in 1..Len(r.tags) : Includes(ToLowerCase(r.tags[j]), q)

PassesFilter(r) ==
  /\ FieldPasses(fQuery.type, r.type)
  /\ FieldPasses(fQuery.language, r.language)
  /\ FieldPasses(fQuery.framework, r.framework)
  /\ FieldPasses(fQuery.difficulty, r.difficulty)
  /\ (fQuery.tags = << >> \/ SharedTags(r) # {})
  /\ TextPasses(r)

C13_FilterPredicate ==
  fStep >= 1 => fOnce = SelectSeq(fData, PassesFilter)

\* C13 witness: a resource that shares one of the two query tags and matches
\* the query only when case is ignored has passed, and another was dropped.
C13_Witness ==
  /\ fStep >= 1
  /\ fQuery.query = "DOCK"
  /\ Len(fQuery.tags) = 2
  /\ Len(fOnce) < Len(fData)
  /\ \E i \in 1..Len(fOnce) :
       /\ Cardinality(SharedTags(fOnce[i])) = 1
       /\ ~Includes(fOnce[i].title, fQuery.query)

\* C14: on the fallback path the response is the filtered static catalog
\* sliced by offset (page-1)*pageSize and limit pageSize: the items are the
\* filtered entries at positions offset+1 .. offset+pageSize that exist, in
\* order; total is the number of filtered entries; totalPages is
\* max(1, ceil(total/pageSize)) (for pageSize >= 1, where the quotient is a
\* number); a page beyond the last has no items and the same total and
\* totalPages.
FilteredCatalog == ApplyFilters(catalog, req)
FallbackOffset == (req.page - 1) * req.pageSize

C14_FallbackSlice ==
  (Done /\ fellBack) =>
    /\ resp.body.total = Len(FilteredCatalog)
    /\ Len(Items) = Cardinality({ k \in 1..Len(FilteredCatalog) :
                                    FallbackOffset < k /\ k <= FallbackOffset + req.pageSize })
    /\ \A i \in 1..Len(Items) : Items[i] = FilteredCatalog[FallbackOffset + i]
    /\ req.pageSize >= 1 =>
         resp.body.totalPages = Max(1, CeilDiv(Len(FilteredCatalog), req.pageSize))
    /\ FallbackOffset >= Len(FilteredCatalog) => Items = << >>

\* C14 witness: the fallback answered a page beyond the last one of a
\* non-empty filtered catalog.
C14_Witness ==
  /\ Done /\ fellBack
  /\ Len(FilteredCatalog) > 0
  /\ req.pageSize >= 1
  /\ req.page > resp.body.totalPages
  /\ Items = << >>
  /\ resp.body.total = Len(FilteredCatalog)

\* C15 (as stated): for the free-book listing hasNext is decided by a second
\* request, for page + 1: a free-book response is preceded by two upstream
\* calls, the second one for the next page.
FreeBooksAnswered == Done /\ path = "freebooks" /\ primary.ok

C15_FreeBooksProbed ==
  FreeBooksAnswered =>
    /\ Len(calls) = 2
    /\ calls[2].api = "freebooks"
    /\ calls[2].page = calls[1].page + 1

\* C15 (amended): the free-book listing is asked once, for the requested
\* page only; hasNext is true exactly when that page has at least one item
\* after the type filter: then totalPages = page + 1 and
\* total = (page-1)*pageSize + n + 1, otherwise totalPages = page and
\* total = (page-1)*pageSize + n, n the number of items of the response.
C15_FreeBooksAssumesNext ==
  FreeBooksAnswered =>
    /\ Len(calls) = 1
    /\ calls[1].api = "freebooks"
    /\ calls[1].page = Max(1, req.page)
    /\ LET n    == Len(Items)
           base == (req.page - 1) * req.pageSize + n
       IN  IF n >= 1
           THEN resp.body.totalPages = req.page + 1 /\ resp.body.total = base + 1
           ELSE resp.body.totalPages = req.page /\ resp.body.total = base

\* C15 witness: the listing returned a book, and the response announces one
\* more page without any further call.
C15_Witness ==
  /\ FreeBooksAnswered
  /\ req.page >= 1
  /\ Len(Items) >= 1
  /\ resp.body.totalPages = req.page + 1
  /\ Len(calls) = 1

\* C16 (as stated): in mixed mode each adapter is asked for at most
\* ceil(pageSize/3) items, pageSize being the request's.
MixedStarted == pc # "idle" /\ path = "mixed"

EffectivePageSize == IF req.pageSize = 0 THEN 12 ELSE req.pageSize

SingleProviderAnswered == Done /\ path # "mixed" /\ req.type # "all"

C17_TypeReapplied ==
  SingleProviderAnswered =>
    \A i \in 1..Len(Items) : Items[i].type = req.type

\* C17 witness: the upstream returned an item of another type than the
\* requested one; it is not in the response, and an item of the requested
\* type is.
C17_Witness ==
  /\ SingleProviderAnswered
  /\ path = "googlebooks" /\ primary.ok
  /\ \E i \in 1..Len(primary.items) :
       mapGoogleBooksVolume(primary.items[i]).type # req.type
  /\ Len(Items) < Len(primary.items)

\* C18: within one response of GET /api/resources no two items have the
\* same id, in every mode and for every upstream reply (in mixed mode also
\* across items that came from different providers).
C18_UniqueIds ==
  Done => \A i, j \in 1..Len(Items) : i # j => Items[i].id # Items[j].id

\* C19 (as stated): POST /api/chat with messages=[] (or messages missing or
\* not an array) answers HTTP 400 with a body { error: <non-empty string> },
\* in every server configuration, and makes no upstream call.
MessagesRejected ==
  /\ chatPc # "idle"
  /\ chatBody.messages.kind # "array" \/ chatBody.messages.list = << >>

C19_EmptyMessagesAlways400 ==
  MessagesRejected =>
    /\ chatPc = "done"
    /\ chatResp.status = 400
    /\ DOMAIN chatResp.body = { "error" }
    /\ chatResp.body.error # ""
    /\ attempts = << >>

\* C19 (amended): when the chat credential is configured, such a request is
\* answered 400 with a body { error: <non-empty string> }; when it is not,
\* the credential check comes first and the answer is 500 with a body
\* { error: <non-empty string> }.  In both cases the handler returns
\* without any upstream call.
C19_EmptyMessages400WithCredential ==
  MessagesRejected =>
    /\ chatPc = "done"
    /\ chatResp.status = (IF chatEnv.geminiKey THEN 400 ELSE 500)
    /\ DOMAIN chatResp.body = { "error" }
    /\ chatResp.body.error # ""
    /\ attempts = << >>

\* C19 witness: with the credential configured, a request with an empty
\* messages array has been answered 400.
C19_Witness ==
  /\ chatPc = "done"
  /\ chatEnv.geminiKey
  /\ chatBody.messages = [ kind |-> "array", list |-> << >> ]
  /\ chatResp.status = 400

\* C20: the candidate models are tried in list order, the requested model
\* first and duplicates removed.  A candidate is tried on the v1beta
\* endpoint, then, after a 403 or 404, on the v1 endpoint.  A call is made
\* only after the call before it failed with 403 or 404, the next candidate
\* only after the current one failed so on both endpoints; any other
\* failure, and any success, is the last call; the model field of the
\* answer to a succeeded call is the candidate that succeeded (the first
\* and only one).  A 200 answer without a succeeded call is the canned
\* reply, with model "mock".
CandidateIndex(m) == CHOOSE i \in 1..Len(candidateModels) : candidateModels[i] = m

C20_CandidatesInOrder ==
  attempts # << >> =>
    /\ candidateModels[1] = requestedModel(chatBody.model)
    /\ \A i, j \in 1..Len(candidateModels) :
         i # j => candidateModels[i] # candidateModels[j]
    /\ attempts[1].model = candidateModels[1] /\ attempts[1].api = "v1beta"
    /\ \A k \in 2..Len(attempts) :
         /\ attempts[k - 1].status \in { 403, 404 }
         /\ IF attempts[k - 1].api = "v1beta"
            THEN attempts[k].model = attempts[k - 1].model /\ attempts[k].api = "v1"
            ELSE /\ attempts[k].api = "v1beta"
                 /\ CandidateIndex(attempts[k].model) = CandidateIndex(attempts[k - 1].model) + 1
    /\ \A k \in 1..Len(attempts) :
         attempts[k].status = Pending <=> (k = Len(attempts) /\ chatPc # "done")
    /\ chatPc = "done" =>
         IF attempts[Len(attempts)].status = 200
         THEN chatResp.status = 200 /\ chatResp.body.model = attempts[Len(attempts)].model
         ELSE IF chatEnv.mockOnFailure
         THEN chatResp.status = 200 /\ chatResp.body.model = "mock"
         ELSE chatResp.status # 200

\* C20 witness: the requested model failed with 403 and 404, the next
\* candidate failed with 404 on v1beta and succeeded on v1, and the answer
\* names that candidate.
C20_Witness ==
  /\ chatPc = "done"
  /\ Len(attempts) = 4
  /\ attempts[1].status = 403 /\ attempts[2].status = 404
  /\ attempts[3].status = 404 /\ attempts[4].status = 200
  /\ attempts[3].model = candidateModels[2]
  /\ candidateModels[2] # requestedModel(chatBody.model)
  /\ chatResp.status = 200
  /\ chatResp.body.model = candidateModels[2]

\* C21: within one request no upstream call is repeated: the calls issued
\* for a request (the probe of page + 1 included, which differs from the
\* primary call by its page) are pairwise different in endpoint and
\* parameters, in every mode and for every page.
C21_NoRepeatedCall ==
  pc # "idle" =>
    \A c, d \in 1..Len(calls) : c # d => calls[c] # calls[d]

\* C22: in mixed mode the merged items depend only on the adapter-invocation
\* order (article, then video, then book) and on each adapter's own result
\* order, not on the order in which the concurrent calls complete: whatever
\* the order of completion, the merge is the concatenation of the tasks'
\* values in invocation order and the response is the de-duplicated merge
\* cut to pageSize.
InvocationOrder == << "devto", "youtube", "googlebooks" >>

InvocationRank(name) == CHOOSE n \in 1..3 : InvocationOrder[n] = name

ValuesInInvocationOrder ==
  LET ValueOf(name) ==
        IF \E k \in 1..Len(tasks) : tasks[k].name = name /\ tasks[k].reply.ok
        THEN LET k == CHOOSE j \in 1..Len(tasks) : tasks[j].name = name
             IN  TaskBody(name, tasks[k].reply)
        ELSE << >>
  IN  ValueOf("devto") \o ValueOf("youtube") \o ValueOf("googlebooks")

C22_CompletionOrderIrrelevant ==
  (Done /\ path = "mixed") =>
    /\ Len(completion) = Len(tasks)
    /\ \A k, l \in 1..Len(tasks) :
         k < l => InvocationRank(tasks[k].name) < InvocationRank(tasks[l].name)
    /\ merged = ValuesInInvocationOrder
    /\ resp = MixedResponse(req, ValuesInInvocationOrder)

\* C22 witness: the book call completed first and the article call last,
\* both returned an item, and the article's item is the first of the
\* response, before the book's.
C22_Witness ==
  /\ Done /\ path = "mixed"
  /\ Len(tasks) = 3
  /\ completion = << 3, 2, 1 >>
  /\ Len(Items) >= 2
  /\ tasks[1].reply.ok /\ Len(tasks[1].reply.items) = 1
  /\ Items[1] = mapDevToArticleToResource(tasks[1].reply.items[1])
  /\ tasks[3].reply.ok /\ Len(tasks[3].reply.items) = 1
  /\ Items[Len(Items)] = mapGoogleBooksVolume(tasks[3].reply.items[1])

PathByProviderAndType ==
  IF req.provider \in { "", "mixed" } /\ req.type = "all" THEN "mixed"
  ELSE IF req.provider \in AdapterNames THEN req.provider
  ELSE "article"

PathApis(p) ==
  CASE p = "mixed"   -> { "devto/search", "youtube", "googlebooks" }
    [] p = "article" -> { "devto/search", "devto/articles" }
    [] OTHER         -> { p }

C24_PathFromProviderAndType ==
  pc # "idle" =>
    /\ path = PathByProviderAndType
    /\ \A c \in 1..Len(calls) : calls[c].api \in PathApis(path)

\* C24 witness: a request with provider 'mixed' and a specific type is being
\* served by the article feed, and its call has been issued.
C24_Witness ==
  /\ pc # "idle"
  /\ req.provider = "mixed" /\ req.type = "video"
  /\ path = "article"
  /\ Len(calls) >= 1
  /\ calls[1].api \in { "devto/search", "devto/articles" }

\* C25: for a video-provider request for page N the cursor walk terminates:
\* each pass of the walk stops at the first hop without continuation token
\* and otherwise after N-1 hops, so the request makes at most 2(N-1)+1
\* upstream calls (one for N <= 1), a number linear in N, and once the
\* handler awaits a call of the walk or the fetch a response is eventually
\* sent.
VideoCallsBounded ==
  (pc # "idle" /\ path = "youtube") =>
    /\ Len(calls) <= 2 * (Max(req.page, 1) - 1) + 1
    /\ walk.i <= Max(req.page - 1, 0)

VideoAwaiting == pc \in { "yt_walk", "yt_fetch" }

MaxTotalPages == 3

HomeTypes == { "all", "video" }
HomeLanguages == { "all", "javascript", "python" }
HomeFilters == [ type : HomeTypes, language : HomeLanguages ]

\* totalPages of the server's result, which the filters determine: one
\* value for the empty filters, one for the narrowed ones.
HomeTotals ==
  { [ f \in HomeFilters |-> IF f = DefaultFilters THEN n ELSE m ] :
      n \in 1..MaxTotalPages, m \in 1..MaxTotalPages }

\* handleCategorySelect: categoryMappings[categoryId] || {}.
HomeCategories == { "frontend", "backend", "unmapped" }
categoryFilter(categoryId, prev) ==
  CASE categoryId = "frontend" -> [prev EXCEPT !.language = "javascript"]
    [] categoryId = "backend"  -> [prev EXCEPT !.language = "python"]
    [] OTHER                   -> prev

QueryKey(f, p) == [ filters |-> f, page |-> p ]

hasSearched == ~hShowCategories \/ hFilters # DefaultFilters
ResultsShown == ~(hShowCategories /\ ~hasSearched)
hasActiveFilters == hFilters # DefaultFilters
QueryOk == hData.status = "ok"
\* const totalPages = data?.totalPages || 1
TotalPagesShown == IF QueryOk /\ hData.totalPages # 0 THEN hData.totalPages ELSE 1
PaginationShown == ResultsShown /\ QueryOk /\ hData.some

\* The render after a handler set filters f and page p: a new key starts a
\* query; refetched tells that the handler called refetch() on the old key.
Render(f, p, refetched) ==
  /\ hFilters' = f
  /\ hPage' = p
  /\ hSent' = (IF refetched THEN { QueryKey(hFilters, hPage) } ELSE { })
                \cup (IF QueryKey(f, p) # QueryKey(hFilters, hPage)
                      THEN { QueryKey(f, p) } ELSE { })
  /\ hData' = IF QueryKey(f, p) # QueryKey(hFilters, hPage) THEN QueryLoading ELSE hData

HomeInit ==
  /\ ServerIdle
  /\ WidgetIdle /\ DbIdle /\ FavIdle
  /\ hFilters = DefaultFilters
  /\ hPage = 1
  /\ hShowCategories = TRUE
  /\ hData = QueryLoading
  /\ hSent = { QueryKey(DefaultFilters, 1) }
  /\ hTotals \in HomeTotals

HomeFrame == UNCHANGED << hTotals, resourceVars, chatVars, filterVars, widgetVars, dbVars, favVars >>

\* SearchFilters.updateFilters(key, value) through onFiltersChange.
updateFilters ==
  /\ \E f \in HomeFilters :
       /\ \/ f.type = hFilters.type
          \/ f.language = hFilters.language
       /\ Render(f, hPage, FALSE)
  /\ UNCHANGED hShowCategories
  /\ HomeFrame

\* SearchFilters.clearFilters, behind `hasActiveFilters &&`.
clearFilters ==
  /\ hasActiveFilters
  /\ Render(DefaultFilters, hPage, FALSE)
  /\ UNCHANGED hShowCategories
  /\ HomeFrame

handleSearch ==
  /\ hShowCategories' = FALSE
  /\ Render(hFilters, 1, TRUE)
  /\ HomeFrame

handleCategorySelect ==
  /\ ~ResultsShown
  /\ \E categoryId \in HomeCategories :
       Render(categoryFilter(categoryId, hFilters), 1, FALSE)
  /\ hShowCategories' = FALSE
  /\ HomeFrame

\* The "Browse Categories" button above the results.
BackToCategories ==
  /\ ResultsShown
  /\ Render(DefaultFilters, 1, FALSE)
  /\ hShowCategories' = TRUE
  /\ HomeFrame

Previous ==
  /\ PaginationShown
  /\ Render(hFilters, Max(1, hPage - 1), FALSE)
  /\ UNCHANGED hShowCategories
  /\ HomeFrame

NextPage ==
  /\ PaginationShown
  /\ Render(hFilters, Min(TotalPagesShown, hPage + 1), FALSE)
  /\ UNCHANGED hShowCategories
  /\ HomeFrame

\* The "Clear Filters" button under "No resources found".
ClearFiltersNoResults ==
  /\ ResultsShown /\ QueryOk /\ ~hData.some
  /\ Render(DefaultFilters, hPage, FALSE)
  /\ UNCHANGED hShowCategories
  /\ HomeFrame

\* The query of the current key settles: the server's result, or an error.
QuerySettles ==
  /\ hData = QueryLoading
  /\ \/ \E some \in BOOLEAN :
          hData' = [ status |-> "ok", totalPages |-> hTotals[hFilters], some |-> some ]
     \/ hData' = [ status |-> "error", totalPages |-> 0, some |-> FALSE ]
  /\ hSent' = { }
  /\ UNCHANGED << hFilters, hPage, hShowCategories >>
  /\ HomeFrame

\* The Retry button of the error notice: refetch().
Retry ==
  /\ ResultsShown /\ hData.status = "error"
  /\ hData' = QueryLoading
  /\ hSent' = { QueryKey(hFilters, hPage) }
  /\ UNCHANGED << hFilters, hPage, hShowCategories >>
  /\ HomeFrame

HomeNext ==
  \/ updateFilters
  \/ clearFilters
  \/ handleSearch
  \/ handleCategorySelect
  \/ BackToCategories
  \/ Previous
  \/ NextPage
  \/ ClearFiltersNoResults
  \/ QuerySettles
  \/ Retry

HomeSpec == HomeInit /\ [][HomeNext]_vars

\* C26: after any sequence of user actions on the home page, every page
\* number sent with a resource query lies between 1 and the totalPages of
\* the result for the filters it is sent with.
C26_PageWithinTotalPages ==
  \A q \in hSent : 1 <= q.page /\ q.page <= hTotals[q.filters]

(***************************************************************************)
(* The chat widget: sendMessage up to its await, and the settling of the   *)
(* fetch.  React renders between two events, so a handler reads the state  *)
(* the handlers before it wrote.                                           *)
(***************************************************************************)
MaxSends == 3

WidgetInputs == { "", " ", "hi", " hi " }

\* String.prototype.trim, for the blank.
RECURSIVE TrimStart(_)
TrimStart(s) ==
  IF Len(s) > 0 /\ SubSeq(s, 1, 1) = " " THEN TrimStart(SubSeq(s, 2, Len(s))) ELSE s
RECURSIVE TrimEnd(_)
TrimEnd(s) ==
  IF Len(s) > 0 /\ SubSeq(s, Len(s), Len(s)) = " " THEN TrimEnd(SubSeq(s, 1, Len(s) - 1)) ELSE s
Trim(s) == TrimEnd(TrimStart(s))

\* What the fetch of POST /api/chat settles to: a 200 with data.content, a
\* non-2xx with data.error, or a rejection.
WidgetReplies ==
  { [ kind |-> "ok", content |-> "Hello", error |-> "" ],
    [ kind |-> "ok", content |-> "", error |-> "" ],
    [ kind |-> "http", content |-> "", error |-> "Failed to get chat response" ],
    [ kind |-> "http", content |-> "", error |-> "" ],
    [ kind |-> "rejected", content |-> "", error |-> "Failed to fetch" ] }

\* Variant of the guard that only looks at the input.
SendBlockedEmptyOnly(trimmed, loading) == trimmed = ""

\* if (!trimmed || loading) return;
SendBlocked(trimmed, loading) == trimmed = "" \/ loading

WidgetInit ==
  /\ ServerIdle
  /\ HomeIdle /\ DbIdle /\ FavIdle
  /\ WidgetIdle

WidgetFrame == UNCHANGED << resourceVars, chatVars, filterVars, homeVars, dbVars, favVars >>

\* onChange of the input.
setInput ==
  /\ \E value \in WidgetInputs : wInput' = value
  /\ UNCHANGED << wMessages, wLoading, wError, wFlight, wSends >>
  /\ WidgetFrame

\* sendMessage, from its first line to the await of fetch.
sendMessage ==
  /\ wSends < MaxSends
  /\ LET trimmed == Trim(wInput)
         nextMessages == Append(wMessages, [ role |-> "user", content |-> trimmed ])
     IN  IF SendBlocked(trimmed, wLoading)
         THEN UNCHANGED widgetVars
         ELSE /\ wMessages' = nextMessages
              /\ wInput' = ""
              /\ wLoading' = TRUE
              /\ wError' = NoError
              /\ wFlight' = Append(wFlight, nextMessages)
              /\ wSends' = wSends + 1
  /\ WidgetFrame

\* The fetch settles and sendMessage runs to its end: try, catch, finally.
fetchSettles ==
  /\ \E k \in 1..Len(wFlight), reply \in WidgetReplies :
       /\ wFlight' = SubSeq(wFlight, 1, k - 1) \o SubSeq(wFlight, k + 1, Len(wFlight))
       /\ CASE reply.kind = "ok" ->
                 /\ wMessages' = Append(wMessages, [ role |-> "assistant", content |-> reply.content ])
                 /\ UNCHANGED wError
            [] reply.kind = "http" ->
                 /\ wError' = OrElse(reply.error, "Request failed")
                 /\ UNCHANGED wMessages
            [] OTHER ->
                 /\ wError' = OrElse(reply.error, "Unknown error")
                 /\ UNCHANGED wMessages
  /\ wLoading' = FALSE
  /\ UNCHANGED << wInput, wSends >>
  /\ WidgetFrame

WidgetNext ==
  \/ setInput
  \/ sendMessage
  \/ fetchSettles

WidgetSpec == WidgetInit /\ [][WidgetNext]_vars

UserMessages == { i \in 1..Len(wMessages) : wMessages[i].role = "user" }
AssistantMessages == { i \in 1..Len(wMessages) : wMessages[i].role = "assistant" }

\* C27: sendMessage does nothing while a request is pending or when the
\* trimmed input is empty: at most one POST /api/chat is in flight, it is in
\* flight exactly while loading is set, one POST is sent per user message,
\* no user message is blank, and every assistant message directly follows a
\* user message, so that a user message is followed by at most one.
C27_OneRequestOneAnswer ==
  /\ Len(wFlight) <= 1
  /\ wLoading <=> Len(wFlight) = 1
  /\ Cardinality(UserMessages) = wSends
  /\ \A i \in UserMessages :
       wMessages[i].content # "" /\ wMessages[i].content = Trim(wMessages[i].content)
  /\ \A i \in AssistantMessages : i > 1 /\ wMessages[i - 1].role = "user"

\* C27 witness: a second message is pending after an answered first one,
\* and text is waiting in the input.
C27_Witness ==
  /\ wSends = 2
  /\ wLoading
  /\ Trim(wInput) # ""
  /\ AssistantMessages # { }

\* The replies the upstream of branch p can give, and the response the
\* branch builds from one.
RoutedReplies(p) == IF p = "youtube" THEN FetchReplies(0) ELSE SingleReplies(p)
RoutedResponse(p, r, reply) ==
  IF p = "youtube" THEN YoutubeResponse(r, reply) ELSE SingleResponse(p, r, reply)
CanReturnItems(p, r) ==
  \E reply \in RoutedReplies(p) :
    reply.ok /\ Len(RoutedResponse(p, r, reply).body.items) > 0

\* C28: for each type the client can filter by (video, book, doc, pdf), the
\* branch its routing selects has an upstream reply for which the response
\* keeps at least one item after the local type filter.
C28_RoutedProviderServesType ==
  (origin = "client" /\ pc # "idle" /\ req.type \in { "video", "book", "doc", "pdf" })
    => CanReturnItems(path, req)

(***************************************************************************)
(* SupabaseService.updateResource / deleteResource on the resources table, *)
(* under the ownership policies of migration 002 (row level security in    *)
(* force on the table).                                                    *)
(***************************************************************************)
MaxDbCalls == 2

DbUsers == { "u1", "u2" }
DbIds == { "r1", "r2" }
DbRow(id, owner, title) == [ id |-> id, user_id |-> owner, title |-> title ]

\* Tables: id is the primary key, user_id is NOT NULL.
DbTables ==
  { { DbRow(id, owner[id], "t0") : id \in present } :
      present \in SUBSET DbIds, owner \in [ DbIds -> DbUsers ] }

\* ResourceUpdate values: a new title, and possibly a user_id ("" = absent).
DbUpdates == [ title : { "t1" }, user_id : { "" } \cup DbUsers ]

\* Variant of the filters without the one on user_id.
RowSelectedById(row, id, userId) == row.id = id

\* .eq('id', id).eq('user_id', userId)
RowSelected(row, id, userId) == row.id = id /\ row.user_id = userId

\* USING (auth.uid() = user_id); auth.uid() is null without a session.
PolicyAllows(row, uid) == uid # "" /\ uid = row.user_id

Updated(row, updates) ==
  [ id |-> row.id,
    user_id |-> IF updates.user_id = "" THEN row.user_id ELSE updates.user_id,
    title |-> updates.title ]

DbInit ==
  /\ ServerIdle
  /\ HomeIdle /\ WidgetIdle /\ FavIdle
  /\ dbRows \in DbTables
  /\ dbInitial = dbRows
  /\ dbUid \in DbUsers \cup { "" }
  /\ dbLog = << >>

DbFrame == UNCHANGED << dbUid, dbInitial, resourceVars, chatVars, filterVars, homeVars, widgetVars, favVars >>

\* The UPDATE touches the rows the filters select and the policy lets the
\* session see; a new row the policy rejects fails the whole statement, and
\* .single() reports an error unless exactly one row comes back.
updateResource ==
  /\ Len(dbLog) < MaxDbCalls
  /\ \E id \in DbIds, userId \in DbUsers, updates \in DbUpdates :
       LET hit == { row \in dbRows : RowSelected(row, id, userId) /\ PolicyAllows(row, dbUid) }
           rejected == \E row \in hit : ~PolicyAllows(Updated(row, updates), dbUid)
       IN  /\ dbRows' = IF rejected THEN dbRows
                        ELSE (dbRows \ hit) \cup { Updated(row, updates) : row \in hit }
           /\ dbLog' = Append(dbLog, [ op |-> "update", id |-> id, userId |-> userId,
                                       error |-> rejected \/ Cardinality(hit) # 1 ])
  /\ DbFrame

deleteResource ==
  /\ Len(dbLog) < MaxDbCalls
  /\ \E id \in DbIds, userId \in DbUsers :
       LET hit == { row \in dbRows : RowSelected(row, id, userId) /\ PolicyAllows(row, dbUid) }
       IN  /\ dbRows' = dbRows \ hit
           /\ dbLog' = Append(dbLog, [ op |-> "delete", id |-> id, userId |-> userId,
                                       error |-> FALSE ])
  /\ DbFrame

DbNext ==
  \/ updateResource
  \/ deleteResource

DbSpec == DbInit /\ [][DbNext]_vars

\* C29: after any sequence of updateResource / deleteResource calls of one
\* session, a row that has changed or gone was named by a call, by its id
\* and by its owner as userId, and every row owned by another user than the
\* session's is still in the table as it was.
C29_OnlyOwnRowsChange ==
  /\ \A row \in dbInitial \ dbRows :
       \E n \in 1..Len(dbLog) : dbLog[n].id = row.id /\ dbLog[n].userId = row.user_id
  /\ \A row \in dbInitial : row.user_id # dbUid => row \in dbRows
  /\ \A row \in dbRows : \E old \in dbInitial : old.id = row.id /\ old.user_id = row.user_id

\* C29 witness: the session's user has updated one of their rows, a call
\* named a row of the other user by its id and its owner, and that row is
\* there as it was.
C29_Witness ==
  /\ \E row \in dbRows : row.user_id = dbUid /\ row.title = "t1"
  /\ \E row \in dbRows :
       /\ row.user_id # dbUid
       /\ row \in dbInitial
       /\ \E n \in 1..Len(dbLog) : dbLog[n].id = row.id /\ dbLog[n].userId = row.user_id

(***************************************************************************)
(* useFavorites: the state, the two effects and localStorage.  An object   *)
(* is the sequence of its entries in key order; the stored string is the   *)
(* sequence of its tokens.                                                 *)
(***************************************************************************)
MaxReloads == 2

FavIds == { "a", "b" }
Entry(id, on) == [ id |-> id, on |-> on ]

\* JSON.stringify of a Record<string, boolean>, and JSON.parse of the result.
JsonStringify(obj) ==
  << "{" >> \o Flat([ k \in 1..Len(obj) |->
                       << obj[k].id, IF obj[k].on THEN "true" ELSE "false" >> ]) \o << "}" >>
JsonParse(raw) ==
  LET inner == SubSeq(raw, 2, Len(raw) - 1)
  IN  [ k \in 1..(Len(inner) \div 2) |-> Entry(inner[2 * k - 1], inner[2 * k] = "true") ]

Stored(obj) == [ present |-> TRUE, raw |-> JsonStringify(obj) ]

\* What the hook has stored by the time of a page load.
StoredBefore ==
  { StorageNull, Stored(<< >>), Stored(<< Entry("a", TRUE) >>),
    Stored(<< Entry("b", TRUE), Entry("a", FALSE) >>) }

\* { ...prev, [id]: !prev[id] }
Toggled(prev, id) ==
  IF \E k \in 1..Len(prev) : prev[k].id = id
  THEN [ k \in 1..Len(prev) |-> IF prev[k].id = id THEN Entry(id, ~prev[k].on) ELSE prev[k] ]
  ELSE Append(prev, Entry(id, TRUE))

\* A queued state update applied to the state.
Reduce(prev, update) ==
  IF update.kind = "set" THEN update.value ELSE Toggled(prev, update.id)
RECURSIVE ReduceAll(_, _)
ReduceAll(prev, queue) ==
  IF queue = << >> THEN prev ELSE ReduceAll(Reduce(prev, Head(queue)), Tail(queue))

FavInit ==
  /\ ServerIdle
  /\ HomeIdle /\ WidgetIdle /\ DbIdle
  /\ favorites = << >>
  /\ storage \in StoredBefore
  /\ favQueue = << >>
  /\ favPc = "mounted"
  /\ favChosen = (IF storage.present THEN JsonParse(storage.raw) ELSE << >>)
  /\ favReloads = 0

FavFrame == UNCHANGED << resourceVars, chatVars, filterVars, homeVars, widgetVars, dbVars >>

\* The effects of the first render, in order: the read that queues
\* setFavorites(JSON.parse(raw)), then the write of the state as rendered.
MountEffects ==
  /\ favPc = "mounted"
  /\ favQueue' = IF storage.present /\ storage.raw # << >>
                 THEN << [ kind |-> "set", value |-> JsonParse(storage.raw), id |-> "" ] >>
                 ELSE << >>
  /\ storage' = Stored(favorites)
  /\ favPc' = IF favQueue' # << >> THEN "render" ELSE "settled"
  /\ UNCHANGED << favorites, favChosen, favReloads >>
  /\ FavFrame

\* The render that takes the queued updates; favorites is a new object, so
\* the write effect is due.
Rerender ==
  /\ favPc = "render"
  /\ favorites' = ReduceAll(favorites, favQueue)
  /\ favQueue' = << >>
  /\ favPc' = "effects"
  /\ UNCHANGED << storage, favChosen, favReloads >>
  /\ FavFrame

\* The effect on [favorites].
WriteEffect ==
  /\ favPc = "effects"
  /\ storage' = Stored(favorites)
  /\ favPc' = "settled"
  /\ UNCHANGED << favorites, favQueue, favChosen, favReloads >>
  /\ FavFrame

\* A click on a bookmark: the update is queued and rendered with the ones
\* queued before it.
toggleFavorite ==
  /\ favPc \in { "render", "settled" }
  /\ \E id \in FavIds :
       /\ favorites' = ReduceAll(favorites, Append(favQueue, [ kind |-> "toggle", value |-> << >>, id |-> id ]))
       /\ favChosen' = Toggled(favChosen, id)
  /\ favQueue' = << >>
  /\ favPc' = "effects"
  /\ UNCHANGED << storage, favReloads >>
  /\ FavFrame

\* The page is reloaded: the state is gone, the stored item stays.  A reload
\* between a toggle and its write effect is left out: the toggle is not
\* stored yet.
Reload ==
  /\ favPc \in { "mounted", "render", "settled" }
  /\ favReloads < MaxReloads
  /\ favReloads' = favReloads + 1
  /\ favorites' = << >>
  /\ favQueue' = << >>
  /\ favPc' = "mounted"
  /\ UNCHANGED << storage, favChosen >>
  /\ FavFrame

FavNext ==
  \/ MountEffects
  \/ Rerender
  \/ WriteEffect
  \/ toggleFavorite
  \/ Reload

FavSpec == FavInit /\ [][FavNext]_vars

\* C30: favorites survive a reload: once the hook's effects have run, the
\* favorites are the ones stored before the mount with the toggles made
\* since, and the stored value is the favorites map.
C30_FavoritesSurviveReload ==
  favPc = "settled" =>
    /\ favorites = favChosen
    /\ storage = Stored(favorites)

====
